---------------------------- MODULE Spec2Model ----------------------------
(***************************************************************************)
(* AI-Tutor-Orchestrator: the orchestration pipeline of                    *)
(* src/src/core/orchestration_agent.py (OrchestrationAgent), the           *)
(* intent/parameter extractor of src/src/core/context_analyzer.py          *)
(* (ContextAnalyzer) and the validator and dispatcher of                   *)
(* src/src/core/tool_orchestrator.py (ToolOrchestrator).                   *)
(*                                                                         *)
(* Text (messages, profile summaries, keywords) is a sequence of           *)
(* one-character strings, so that str.lower() and the substring test       *)
(* `kw in text` are computed rather than assumed.  A Python dict keeps     *)
(* insertion order and is a sequence of entries with distinct keys.  The   *)
(* language-model completion and the simulator (mock_tools) are external   *)
(* collaborators: every outcome they can produce is a nondeterministic     *)
(* choice of the action that awaits them.                                  *)
(***************************************************************************)
EXTENDS Integers, Sequences, FiniteSets, TLC

(***************************************************************************)
(* Text                                                                    *)
(***************************************************************************)
UpperLetters ==
    <<"A","B","C","D","E","F","G","H","I","J","K","L","M","N","O","P","Q","R","S","T","U","V","W","X","Y","Z">>

LowerLetters ==
    <<"a","b","c","d","e","f","g","h","i","j","k","l","m","n","o","p","q","r","s","t","u","v","w","x","y","z">>

\* str.lower() on one character
LowerChar(c) ==
    IF \E i \in 1..Len(UpperLetters) : UpperLetters[i] = c
    THEN LowerLetters[CHOOSE i \in 1..Len(UpperLetters) : UpperLetters[i] = c]
    ELSE c

\* str.lower()
Lower(s) ==
    [i \in 1..Len(s) |-> LowerChar(s[i])]

\* Python's `needle in hay` on strings
Contains(hay, needle) ==
    \E i \in 1..(Len(hay) - Len(needle) + 1) :
        SubSeq(hay, i, i + Len(needle) - 1) = needle

\* any(word in text for word in words)
AnyIn(words, text) ==
    \E i \in 1..Len(words) : Contains(text, words[i])

MsgQuantum ==
    <<"I"," ","n","e","e","d"," ","h","e","l","p"," ","u","n","d","e","r","s","t","a","n","d","i","n","g"," ","q","u","a","n","t","u","m"," ","m","e","c","h","a","n","i","c","s">>
MsgSpanish ==
    <<"M","a","k","e"," ","f","l","a","s","h","c","a","r","d","s"," ","f","o","r"," ","S","p","a","n","i","s","h"," ","v","o","c","a","b","u","l","a","r","y">>
MsgNotesQuiz ==
    <<"n","o","t","e","s"," ","a","n","d"," ","a"," ","h","a","r","d"," ","q","u","i","z">>
MsgHello ==
    <<"h","e","l","l","o">>
EmoFocused ==
    <<"F","o","c","u","s","e","d"," ","a","n","d"," ","m","o","t","i","v","a","t","e","d">>
EmoAnxious ==
    <<"A","n","x","i","o","u","s"," ","b","e","f","o","r","e"," ","e","x","a","m","s">>
EmoAnxiousFocused ==
    <<"A","n","x","i","o","u","s"," ","b","u","t"," ","f","o","c","u","s","e","d">>
EmoConfused ==
    <<"a"," ","b","i","t"," ","c","o","n","f","u","s","e","d">>
MasteryLevel5 ==
    <<"L","e","v","e","l"," ","5",":"," ","D","e","v","e","l","o","p","i","n","g"," ","c","o","m","p","e","t","e","n","c","e">>
MasteryLevel2 ==
    <<"L","e","v","e","l"," ","2">>
MasteryLevel8 ==
    <<"L","e","v","e","l"," ","8">>
LearnVisual ==
    <<"V","i","s","u","a","l"," ","l","e","a","r","n","e","r",","," ","p","r","e","f","e","r","s"," ","e","x","a","m","p","l","e","s">>
LearnAuditory ==
    <<"a","u","d","i","t","o","r","y">>
NoteKeywords ==
    << <<"n","o","t","e","s">>,
       <<"n","o","t","e">>,
       <<"s","u","m","m","a","r","y">>,
       <<"o","u","t","l","i","n","e">> >>
FlashcardKeywords ==
    << <<"f","l","a","s","h","c","a","r","d">>,
       <<"f","l","a","s","h"," ","c","a","r","d">>,
       <<"m","e","m","o","r","i","z","e">>,
       <<"r","e","v","i","e","w">>,
       <<"q","u","i","z">> >>
ExplainKeywords ==
    << <<"e","x","p","l","a","i","n">>,
       <<"w","h","a","t"," ","i","s">>,
       <<"h","o","w"," ","d","o","e","s">>,
       <<"u","n","d","e","r","s","t","a","n","d">>,
       <<"c","o","n","f","u","s","e","d">> >>
EasyWords ==
    << <<"s","t","r","u","g","g","l","i","n","g">>,
       <<"c","o","n","f","u","s","e","d">>,
       <<"d","i","f","f","i","c","u","l","t">>,
       <<"h","a","r","d">> >>
HardWords ==
    << <<"c","h","a","l","l","e","n","g","e">>,
       <<"a","d","v","a","n","c","e","d">>,
       <<"c","o","m","p","l","e","x">> >>
EasyLevels ==
    << <<"l","e","v","e","l"," ","1">>,
       <<"l","e","v","e","l"," ","2">>,
       <<"l","e","v","e","l"," ","3">>,
       <<"f","o","u","n","d","a","t","i","o","n">> >>
HardLevels ==
    << <<"l","e","v","e","l"," ","7">>,
       <<"l","e","v","e","l"," ","8">>,
       <<"l","e","v","e","l"," ","9">>,
       <<"l","e","v","e","l"," ","1","0">>,
       <<"a","d","v","a","n","c","e","d">> >>
KwAnxious == <<"a","n","x","i","o","u","s">>
KwFocused == <<"f","o","c","u","s","e","d">>
KwConfused == <<"c","o","n","f","u","s","e","d">>
KwVisual == <<"v","i","s","u","a","l">>

(***************************************************************************)
(* Values and dictionaries                                                 *)
(***************************************************************************)
\* None
NULL == "<None>"

\* a str, int or bool value of a parameter dictionary
S(x) == [t |-> "str", s |-> x, n |-> 0]

N(k) == [t |-> "int", s |-> "", n |-> k]

B(b) == [t |-> "bool", s |-> "", n |-> IF b THEN 1 ELSE 0]

\* {}
EmptyDict == [k \in {} |-> S("")]

\* params[key] = v
Put(params, key, v) ==
    [k \in (DOMAIN params) \cup {key} |-> IF k = key THEN v ELSE params[k]]

\* params.get(key, default)
Get(params, key, default) ==
    IF key \in DOMAIN params THEN params[key] ELSE default

\* One item of a tool -> parameters dictionary.  isdict = FALSE is a value
\* that is no dictionary (JSON null): item assignment and .get raise on it.
Entry(tool, isdict, params) ==
    [tool |-> tool, isdict |-> isdict, params |-> params]

\* list(d.keys())
Keys(d) ==
    [i \in 1..Len(d) |-> d[i].tool]

\* key in d
HasKey(d, tool) ==
    \E i \in 1..Len(d) : d[i].tool = tool

\* d[tool] = e  (a new key goes last, an existing key keeps its place)
DictSet(d, e) ==
    IF HasKey(d, e.tool)
    THEN [i \in 1..Len(d) |-> IF d[i].tool = e.tool THEN e ELSE d[i]]
    ELSE Append(d, e)

\* the elements of a sequence
Range(s) ==
    {s[i] : i \in 1..Len(s)}

(***************************************************************************)
(* Tools and the request                                                   *)
(***************************************************************************)
\* ToolOrchestrator.tool_endpoints, in insertion order
ToolEndpoints ==
    <<"note_maker", "flashcard_generator", "concept_explainer">>

KnownTools ==
    Range(ToolEndpoints)

\* a tool name the language model may invent
UnknownTool == "essay_grader"

LLMToolNames ==
    KnownTools \cup {UnknownTool}

\* TeachingStyle
TeachingStyles ==
    {"direct", "socratic", "visual", "flipped_classroom"}

UserInfo(emotional, mastery, learning) ==
    [emotional_state_summary |-> emotional,
     mastery_level_summary |-> mastery,
     learning_style_summary |-> learning]

OrchestrationRequest(message, style, user_info) ==
    [current_message |-> message, teaching_style |-> style, user_info |-> user_info]

\* the requests of the modelled runs
Requests ==
    { OrchestrationRequest(MsgQuantum, "direct",
                           UserInfo(EmoFocused, MasteryLevel5, LearnVisual)),
      OrchestrationRequest(MsgSpanish, "socratic",
                           UserInfo(EmoAnxious, MasteryLevel2, LearnAuditory)),
      OrchestrationRequest(MsgNotesQuiz, "visual",
                           UserInfo(EmoConfused, MasteryLevel8, LearnVisual)),
      OrchestrationRequest(MsgHello, "flipped_classroom",
                           UserInfo(EmoFocused, MasteryLevel8, LearnAuditory)) }

(***************************************************************************)
(* ContextAnalyzer: intent analysis                                        *)
(***************************************************************************)
\* The value found under "tools_needed": a list of names, None (falsy, no
\* len()) or a number (truthy, no len(), not iterable).
ListTN(l) == [t |-> "list", l |-> l]

NoneTN == [t |-> "none", l |-> <<>>]

IntTN == [t |-> "int", l |-> <<>>]

\* sequences over names of length at most n without repetition
NoDupSeqs(names, n) ==
    UNION { { q \in [1..k -> names] : \A i, j \in 1..k : q[i] = q[j] => i = j } : k \in 0..n }

\* a keyword matching that chooses no default tool
FallbackToolsNeededNoDefault(message) ==
    LET message_lower == Lower(message)
        t1 == IF AnyIn(NoteKeywords, message_lower) THEN <<"note_maker">> ELSE <<>>
        t2 == IF AnyIn(FlashcardKeywords, message_lower)
              THEN Append(t1, "flashcard_generator") ELSE t1
    IN  IF AnyIn(ExplainKeywords, message_lower)
        THEN Append(t2, "concept_explainer") ELSE t2

\* ContextAnalyzer._fallback_intent_analysis: tools_needed
FallbackToolsNeeded(message) ==
    LET message_lower == Lower(message)
        t1 == IF AnyIn(NoteKeywords, message_lower) THEN <<"note_maker">> ELSE <<>>
        t2 == IF AnyIn(FlashcardKeywords, message_lower)
              THEN Append(t1, "flashcard_generator") ELSE t1
        t3 == IF AnyIn(ExplainKeywords, message_lower)
              THEN Append(t2, "concept_explainer") ELSE t2
    IN  IF t3 = <<>> THEN <<"concept_explainer">> ELSE t3

RECURSIVE SplitWords(_, _, _)
\* str.split(): the words between runs of blanks; word is the word being
\* read and words the ones read so far
SplitWords(text, word, words) ==
    IF text = <<>> THEN (IF word = <<>> THEN words ELSE Append(words, word))
    ELSE IF Head(text) = " "
    THEN SplitWords(Tail(text), <<>>, IF word = <<>> THEN words ELSE Append(words, word))
    ELSE SplitWords(Tail(text), Append(word, Head(text)), words)

\* ContextAnalyzer._extract_topics: the capitalised words of more than
\* three letters, lower-cased, at most three of them
ExtractTopics(message) ==
    LET IsUpper(c) == \E i \in 1..Len(UpperLetters) : UpperLetters[i] = c
        IsLetter(c) == IsUpper(c) \/ \E i \in 1..Len(LowerLetters) : LowerLetters[i] = c
        IsTopic(word) == /\ IsUpper(word[1])
                         /\ Len(word) > 3
                         /\ \A i \in 1..Len(word) : IsLetter(word[i])
        topics == SelectSeq(SplitWords(message, <<>>, <<>>), IsTopic)
    IN  [i \in 1..(IF Len(topics) < 3 THEN Len(topics) ELSE 3) |-> Lower(topics[i])]

\* ContextAnalyzer._infer_subject: the first subject of the table with a
\* keyword in the lower-cased message, "general" when there is none
InferSubject(message) ==
    LET message_lower == Lower(message)
        subject_keywords ==
          << [subject |-> "math",
              keywords |-> << <<"m","a","t","h">>,
                            <<"a","l","g","e","b","r","a">>,
                            <<"c","a","l","c","u","l","u","s">>,
                            <<"g","e","o","m","e","t","r","y">>,
                            <<"e","q","u","a","t","i","o","n">>,
                            <<"d","e","r","i","v","a","t","i","v","e">> >>],
             [subject |-> "science",
              keywords |-> << <<"s","c","i","e","n","c","e">>,
                            <<"b","i","o","l","o","g","y">>,
                            <<"c","h","e","m","i","s","t","r","y">>,
                            <<"p","h","y","s","i","c","s">>,
                            <<"p","h","o","t","o","s","y","n","t","h","e","s","i","s">>,
                            <<"m","o","l","e","c","u","l","e">> >>],
             [subject |-> "history",
              keywords |-> << <<"h","i","s","t","o","r","y">>,
                            <<"w","a","r">>,
                            <<"r","e","v","o","l","u","t","i","o","n">>,
                            <<"a","n","c","i","e","n","t">>,
                            <<"c","i","v","i","l","i","z","a","t","i","o","n">> >>],
             [subject |-> "english",
              keywords |-> << <<"e","n","g","l","i","s","h">>,
                            <<"l","i","t","e","r","a","t","u","r","e">>,
                            <<"w","r","i","t","i","n","g">>,
                            <<"e","s","s","a","y">>,
                            <<"g","r","a","m","m","a","r">> >>],
             [subject |-> "geography",
              keywords |-> << <<"g","e","o","g","r","a","p","h","y">>,
                            <<"c","o","u","n","t","r","y">>,
                            <<"c","o","n","t","i","n","e","n","t">>,
                            <<"c","l","i","m","a","t","e">>,
                            <<"m","a","p">> >>] >>
        matching == SelectSeq(subject_keywords, LAMBDA row : AnyIn(row.keywords, message_lower))
    IN  IF matching = <<>> THEN "general" ELSE matching[1].subject

\* ContextAnalyzer._fallback_intent_analysis
FallbackIntentAnalysis(message) ==
    [source |-> "fallback", tools_needed |-> ListTN(FallbackToolsNeeded(message)),
     topics |-> ExtractTopics(message), subject |-> InferSubject(message)]

\* ContextAnalyzer.analyze_intent: the decoded reply, or the fallback when the
\* completion call raises or no JSON object can be decoded from the reply
AnalyzeIntent(req, reply) ==
    IF reply.kind = "json"
    THEN [source |-> "llm", tools_needed |-> reply.tn]
    ELSE FallbackIntentAnalysis(req.current_message)

(***************************************************************************)
(* ContextAnalyzer: parameter extraction                                   *)
(***************************************************************************)
\* a difficulty inference with no default tier
InferDifficultyNoDefault(message, user_info) ==
    LET message_lower == Lower(message)
        mastery_lower == Lower(user_info.mastery_level_summary)
    IN  IF AnyIn(EasyWords, message_lower) THEN "easy"
        ELSE IF AnyIn(HardWords, message_lower) THEN "hard"
        ELSE IF AnyIn(EasyLevels, mastery_lower) THEN "easy"
        ELSE IF AnyIn(HardLevels, mastery_lower) THEN "hard"
        ELSE NULL

\* ContextAnalyzer._infer_difficulty
InferDifficulty(message, user_info) ==
    LET message_lower == Lower(message)
        mastery_lower == Lower(user_info.mastery_level_summary)
    IN  IF AnyIn(EasyWords, message_lower) THEN "easy"
        ELSE IF AnyIn(HardWords, message_lower) THEN "hard"
        ELSE IF AnyIn(EasyLevels, mastery_lower) THEN "easy"
        ELSE IF AnyIn(HardLevels, mastery_lower) THEN "hard"
        ELSE "medium"

\* The topic, subject and concept texts that the fallback derives from the
\* message are always present strings; nothing below reads their content.
DerivedText == S("derived")

\* ContextAnalyzer._fallback_parameter_extraction: the dictionary built for
\* one tool
FallbackParamsFor(tool, message, user_info) ==
    IF tool = "note_maker" THEN
        [topic |-> DerivedText,
         subject |-> DerivedText,
         note_taking_style |-> S("outline"),
         include_examples |-> B(TRUE),
         include_analogies |-> B(Contains(Lower(user_info.learning_style_summary), KwVisual))]
    ELSE IF tool = "flashcard_generator" THEN
        [topic |-> DerivedText,
         count |-> N(7),
         difficulty |-> S(InferDifficulty(message, user_info)),
         subject |-> DerivedText,
         include_examples |-> B(TRUE)]
    ELSE
        [concept_to_explain |-> DerivedText,
         current_topic |-> DerivedText,
         desired_depth |-> IF Contains(Lower(user_info.emotional_state_summary), KwConfused)
                           THEN S("basic") ELSE S("intermediate")]

RECURSIVE FallbackFrom(_, _, _, _)
\* the loop of _fallback_parameter_extraction over tools_needed
FallbackFrom(tools, message, user_info, result) ==
    IF tools = <<>> THEN result
    ELSE LET tool == Head(tools)
             next == IF tool \in KnownTools
                     THEN DictSet(result, Entry(tool, TRUE, FallbackParamsFor(tool, message, user_info)))
                     ELSE result
         IN  FallbackFrom(Tail(tools), message, user_info, next)

\* ContextAnalyzer._fallback_parameter_extraction
FallbackParameterExtraction(tools_needed, message, user_info) ==
    FallbackFrom(tools_needed, message, user_info, <<>>)

\* ContextAnalyzer.extract_parameters.  tools_needed is a TN value and reply
\* the outcome of the completion call; the result is [raised, value].
\*  - a number: ", ".join(tools_needed) raises inside the try, and the
\*    fallback called from the handler raises again on `for tool in ...`;
\*  - the reply is used when it decodes to a dictionary holding at least one
\*    requested tool, the fallback otherwise.
ExtractParameters(tools_needed, req, reply) ==
    IF tools_needed.t # "list" THEN [raised |-> TRUE, value |-> <<>>]
    ELSE IF reply.kind = "json"
            /\ \E i \in 1..Len(tools_needed.l) : HasKey(reply.result, tools_needed.l[i])
    THEN [raised |-> FALSE, value |-> reply.result]
    ELSE [raised |-> FALSE,
          value |-> FallbackParameterExtraction(tools_needed.l, req.current_message, req.user_info)]

(***************************************************************************)
(* OrchestrationAgent._adapt_for_teaching_style                            *)
(***************************************************************************)
\* style rules whose socratic rule raises the difficulty at every call
StyleRulesRaiseEveryStep(tool, params, teaching_style) ==
    IF teaching_style = "visual" /\ tool = "note_maker"
    THEN Put(Put(params, "include_analogies", B(TRUE)), "include_examples", B(TRUE))
    ELSE IF teaching_style = "socratic" /\ tool = "flashcard_generator"
              /\ Get(params, "difficulty", S(NULL)) \in {S("easy"), S("medium")}
    THEN Put(params, "difficulty",
             IF params["difficulty"] = S("easy") THEN S("medium") ELSE S("hard"))
    ELSE IF teaching_style = "direct" /\ tool = "note_maker"
    THEN Put(Put(params, "note_taking_style", S("outline")), "include_analogies", B(FALSE))
    ELSE params

\* the teaching-style rules applied to one dictionary
StyleRules(tool, params, teaching_style) ==
    IF teaching_style = "visual" /\ tool = "note_maker"
    THEN Put(Put(params, "include_analogies", B(TRUE)), "include_examples", B(TRUE))
    ELSE IF teaching_style = "socratic" /\ tool = "flashcard_generator"
              /\ Get(params, "difficulty", S(NULL)) = S("easy")
    THEN Put(params, "difficulty", S("medium"))
    ELSE IF teaching_style = "direct" /\ tool = "note_maker"
    THEN Put(Put(params, "note_taking_style", S("outline")), "include_analogies", B(FALSE))
    ELSE params

\* emotional-state rules whose focused rule has no upper end
EmotionRulesUncapped(tool, params, emotional_lower) ==
    LET count == Get(params, "count", N(5)).n
    IN  IF Contains(emotional_lower, KwAnxious) THEN
            IF tool = "flashcard_generator"
            THEN Put(Put(params, "difficulty", S("easy")),
                     "count", N(IF count < 3 THEN count ELSE 3))
            ELSE IF tool = "concept_explainer"
            THEN Put(params, "desired_depth", S("basic"))
            ELSE params
        ELSE IF Contains(emotional_lower, KwFocused) /\ tool = "flashcard_generator"
        THEN Put(params, "count", N(count + 2))
        ELSE params

\* the emotional-state rules applied to one dictionary whose count, if any,
\* is a number
EmotionRules(tool, params, emotional_lower) ==
    LET count == Get(params, "count", N(5)).n
    IN  IF Contains(emotional_lower, KwAnxious) THEN
            IF tool = "flashcard_generator"
            THEN Put(Put(params, "difficulty", S("easy")),
                     "count", N(IF count < 3 THEN count ELSE 3))
            ELSE IF tool = "concept_explainer"
            THEN Put(params, "desired_depth", S("basic"))
            ELSE params
        ELSE IF Contains(emotional_lower, KwFocused) /\ tool = "flashcard_generator"
        THEN Put(params, "count", N(IF count + 2 < 20 THEN count + 2 ELSE 20))
        ELSE params

\* a style rule touches the value of this tool (an assignment or a .get)
StyleTouches(tool, teaching_style) ==
    \/ teaching_style = "visual" /\ tool = "note_maker"
    \/ teaching_style = "socratic" /\ tool = "flashcard_generator"
    \/ teaching_style = "direct" /\ tool = "note_maker"

\* an emotional-state rule touches the value of this tool
EmotionTouches(tool, emotional_lower) ==
    \/ Contains(emotional_lower, KwAnxious)
         /\ tool \in {"flashcard_generator", "concept_explainer"}
    \/ ~Contains(emotional_lower, KwAnxious) /\ Contains(emotional_lower, KwFocused)
         /\ tool = "flashcard_generator"

\* an iteration that applies the emotional-state rules first and the
\* teaching-style rules last
AdaptEntryStyleLast(e, teaching_style, user_info) ==
    LET emotional_lower == Lower(user_info.emotional_state_summary)
        touched == StyleTouches(e.tool, teaching_style) \/ EmotionTouches(e.tool, emotional_lower)
        badcount == /\ e.tool = "flashcard_generator"
                    /\ EmotionTouches(e.tool, emotional_lower)
                    /\ Get(e.params, "count", N(5)).t # "int"
    IN  IF ~e.isdict THEN [raised |-> touched, entry |-> e]
        ELSE IF badcount THEN [raised |-> TRUE, entry |-> e]
        ELSE [raised |-> FALSE,
              entry |-> Entry(e.tool, TRUE,
                              StyleRules(e.tool, EmotionRules(e.tool, e.params, emotional_lower),
                                         teaching_style))]

\* One iteration of the loop: [raised, entry].  It raises a TypeError or
\* AttributeError when a rule touches a value that is no dictionary, or when
\* min(count, 3) / count + 2 meets a count that is no number.
AdaptEntry(e, teaching_style, user_info) ==
    LET emotional_lower == Lower(user_info.emotional_state_summary)
        touched == StyleTouches(e.tool, teaching_style) \/ EmotionTouches(e.tool, emotional_lower)
        styled == StyleRules(e.tool, e.params, teaching_style)
        badcount == /\ e.tool = "flashcard_generator"
                    /\ EmotionTouches(e.tool, emotional_lower)
                    /\ Get(styled, "count", N(5)).t # "int"
    IN  IF ~e.isdict THEN [raised |-> touched, entry |-> e]
        ELSE IF badcount THEN [raised |-> TRUE, entry |-> e]
        ELSE [raised |-> FALSE,
              entry |-> Entry(e.tool, TRUE, EmotionRules(e.tool, styled, emotional_lower))]

\* OrchestrationAgent._adapt_for_teaching_style: [raised, value]
AdaptForTeachingStyle(parameters, teaching_style, user_info) ==
    LET adapted == [i \in 1..Len(parameters) |->
                        AdaptEntry(parameters[i], teaching_style, user_info)]
    IN  [raised |-> \E i \in 1..Len(parameters) : adapted[i].raised,
         value |-> [i \in 1..Len(parameters) |-> adapted[i].entry]]

\* The dictionary of one tool as the loop leaves it.  `parameters.copy()` is
\* a shallow copy: params is the very dictionary the caller's mapping holds,
\* so every assignment of the rules lands in it.  An iteration that raises on
\* a count that is no number has already applied the style rules and, under
\* "anxious", the assignment of difficulty.
AdaptEntryInPlace(e, teaching_style, user_info) ==
    LET emotional_lower == Lower(user_info.emotional_state_summary)
        r == AdaptEntry(e, teaching_style, user_info)
        styled == StyleRules(e.tool, e.params, teaching_style)
    IN  IF ~e.isdict THEN e
        ELSE IF ~r.raised THEN r.entry
        ELSE Entry(e.tool, TRUE,
                   IF Contains(emotional_lower, KwAnxious)
                   THEN Put(styled, "difficulty", S("easy"))
                   ELSE styled)

\* the mapping the caller passed to _adapt_for_teaching_style, after the
\* call: the loop stops at the first iteration that raises
AdaptInPlace(parameters, teaching_style, user_info) ==
    LET raising == {i \in 1..Len(parameters) :
                       AdaptEntry(parameters[i], teaching_style, user_info).raised}
    IN  [i \in 1..Len(parameters) |->
            IF \E j \in raising : j < i THEN parameters[i]
            ELSE AdaptEntryInPlace(parameters[i], teaching_style, user_info)]

(***************************************************************************)
(* ToolOrchestrator.validate_parameters                                    *)
(***************************************************************************)
NoteStyles == {S("outline"), S("bullet_points"), S("narrative"), S("structured")}

Difficulties == {S("easy"), S("medium"), S("hard")}

Depths == {S("basic"), S("intermediate"), S("advanced"), S("comprehensive")}

\* flashcard count range of validate_parameters
MinCount == 1

MaxCount == 20

Verdict(valid, reason) == [valid |-> valid, reason |-> reason]

RECURSIVE FirstMissing(_, _)
\* the first required field absent from params, NULL when all are present
FirstMissing(required_fields, params) ==
    IF required_fields = <<>> THEN NULL
    ELSE IF Head(required_fields) \notin DOMAIN params THEN Head(required_fields)
    ELSE FirstMissing(Tail(required_fields), params)

MissingField(field) == Verdict(FALSE, "Missing required field: " \o field)

NotIterable == Verdict(FALSE, "argument of type 'NoneType' is not iterable")

\* the fields a tool's request must carry (NoteRequest, FlashcardRequest,
\* ConceptRequest: the fields without a default, user_info and chat_history
\* aside); a name that is no tool has none
RequiredKeys(tool_name) ==
    IF tool_name = "note_maker" THEN {"topic", "subject", "note_taking_style"}
    ELSE IF tool_name = "flashcard_generator" THEN {"topic", "count", "difficulty", "subject"}
    ELSE IF tool_name = "concept_explainer"
    THEN {"concept_to_explain", "current_topic", "desired_depth"}
    ELSE {}

\* every field of a tool's request, the defaulted ones included
SchemaKeys(tool_name) ==
    IF tool_name = "note_maker"
    THEN RequiredKeys(tool_name) \cup {"include_examples", "include_analogies"}
    ELSE IF tool_name = "flashcard_generator"
    THEN RequiredKeys(tool_name) \cup {"include_examples"}
    ELSE RequiredKeys(tool_name)

\* a validator that tests the presence of the required fields and nothing else
ValidateParametersKeysOnly(tool_name, e) ==
    IF tool_name \notin KnownTools THEN Verdict(TRUE, NULL)
    ELSE IF ~e.isdict THEN NotIterable
    ELSE IF ~(RequiredKeys(tool_name) \subseteq DOMAIN e.params)
    THEN MissingField("topic")
    ELSE Verdict(TRUE, NULL)

\* a validator that also rejects every field outside the tool's schema
ValidateParametersClosedSchema(tool_name, e) ==
    IF tool_name \notin KnownTools THEN Verdict(TRUE, NULL)
    ELSE IF ~e.isdict THEN NotIterable
    ELSE IF ~(RequiredKeys(tool_name) \subseteq DOMAIN e.params)
    THEN MissingField("topic")
    ELSE IF ~(DOMAIN e.params \subseteq SchemaKeys(tool_name))
    THEN Verdict(FALSE, "Unexpected field")
    ELSE Verdict(TRUE, NULL)

\* ToolOrchestrator.validate_parameters.  `field not in params` raises on a
\* value that is no dictionary, and 1 <= count <= 20 raises on a count that is
\* no number; the handler turns both into (False, str(e)).  A name that is
\* none of the three tools falls through every branch to (True, None).
ValidateParameters(tool_name, e) ==
    IF tool_name = "note_maker" THEN
        LET missing == FirstMissing(<<"topic", "subject", "note_taking_style">>, e.params)
        IN  IF ~e.isdict THEN NotIterable
            ELSE IF missing # NULL THEN MissingField(missing)
            ELSE IF e.params["note_taking_style"] \notin NoteStyles
            THEN Verdict(FALSE, "Invalid note_taking_style")
            ELSE Verdict(TRUE, NULL)
    ELSE IF tool_name = "flashcard_generator" THEN
        LET missing == FirstMissing(<<"topic", "count", "difficulty", "subject">>, e.params)
        IN  IF ~e.isdict THEN NotIterable
            ELSE IF missing # NULL THEN MissingField(missing)
            ELSE IF e.params["count"].t # "int"
            THEN Verdict(FALSE, "'<=' not supported between instances of 'int' and 'str'")
            ELSE IF ~(MinCount <= e.params["count"].n /\ e.params["count"].n <= MaxCount)
            THEN Verdict(FALSE, "Count must be between 1 and 20")
            ELSE IF e.params["difficulty"] \notin Difficulties
            THEN Verdict(FALSE, "Invalid difficulty level")
            ELSE Verdict(TRUE, NULL)
    ELSE IF tool_name = "concept_explainer" THEN
        LET missing == FirstMissing(<<"concept_to_explain", "current_topic", "desired_depth">>, e.params)
        IN  IF ~e.isdict THEN NotIterable
            ELSE IF missing # NULL THEN MissingField(missing)
            ELSE IF e.params["desired_depth"] \notin Depths
            THEN Verdict(FALSE, "Invalid desired_depth")
            ELSE Verdict(TRUE, NULL)
    ELSE Verdict(TRUE, NULL)

(***************************************************************************)
(* The replies of the language-model completion call                       *)
(***************************************************************************)
\* the most tools a reply of the language model names
MaxReplyTools == 2

\* a completion call that raises, a reply from which no JSON object can be
\* decoded, or a decoded object whose "tools_needed" is tn
IntentReplies ==
    {[kind |-> "raise", tn |-> NoneTN], [kind |-> "nojson", tn |-> NoneTN]}
    \cup {[kind |-> "json", tn |-> tn] :
            tn \in {NoneTN, IntTN} \cup {ListTN(l) : l \in NoDupSeqs(LLMToolNames, MaxReplyTools)}}

\* the values the language model may give a tool: a valid dictionary and two
\* defective ones (missing keys, values outside the schema, a count that is
\* no number, a value that is no dictionary)
ReplyParamOptions(tool) ==
    IF tool = "note_maker" THEN
        { Entry(tool, TRUE, [topic |-> S("llm"), subject |-> S("llm"), note_taking_style |-> S("narrative")]),
          Entry(tool, TRUE, [topic |-> S("llm"), subject |-> S("llm"), note_taking_style |-> S("mindmap")]),
          Entry(tool, TRUE, [topic |-> S("llm")]) }
    ELSE IF tool = "flashcard_generator" THEN
        { Entry(tool, TRUE, [topic |-> S("llm"), count |-> N(5), difficulty |-> S("easy"), subject |-> S("llm")]),
          Entry(tool, TRUE, [topic |-> S("llm"), count |-> N(25), difficulty |-> S("hard"), subject |-> S("llm")]),
          Entry(tool, TRUE, [topic |-> S("llm"), count |-> S("seven"), difficulty |-> S("easy"), subject |-> S("llm")]) }
    ELSE IF tool = "concept_explainer" THEN
        { Entry(tool, TRUE, [concept_to_explain |-> S("llm"), current_topic |-> S("llm"), desired_depth |-> S("advanced")]),
          Entry(tool, TRUE, [concept_to_explain |-> S("llm"), current_topic |-> S("llm"), desired_depth |-> S("expert")]),
          Entry(tool, FALSE, EmptyDict) }
    ELSE { Entry(tool, TRUE, EmptyDict) }

\* the dictionaries a reply can decode to: at most MaxReplyTools keys
ReplyDicts ==
    UNION { { d \in [1..Len(ks) -> UNION {ReplyParamOptions(t) : t \in LLMToolNames}] :
                \A i \in 1..Len(ks) : d[i] \in ReplyParamOptions(ks[i]) } :
            ks \in NoDupSeqs(LLMToolNames, MaxReplyTools) }

ParameterReplies ==
    {[kind |-> "raise", result |-> <<>>], [kind |-> "nojson", result |-> <<>>]}
    \cup {[kind |-> "json", result |-> d] : d \in ReplyDicts}

(***************************************************************************)
(* ToolOrchestrator: the dispatcher                                        *)
(***************************************************************************)
ToolResponse(tool_name, success, error) ==
    [tool_name |-> tool_name, success |-> success, error_message |-> error]

NoResponse == ToolResponse(NULL, FALSE, NULL)

\* MockEducationalTools.execute_note_maker / execute_flashcard_generator /
\* execute_concept_explainer: the response of a simulator call that returns
MockResponse(tool) ==
    ToolResponse(tool, TRUE, NULL)

\* a dispatcher that creates a call for every endpoint it knows, whatever
\* mapping it was given
DispatchedToolsAllEndpoints(tool_parameters) ==
    ToolEndpoints

\* ToolOrchestrator.execute_tools: the tools for which a call is created
DispatchedTools(tool_parameters) ==
    SelectSeq(Keys(tool_parameters), LAMBDA t : t \in KnownTools)

\* a try block that goes to the configured endpoint first
FirstAwaitRealBackend(tool_name) ==
    "api_request"

\* _execute_single_tool: the first await of the try block.  The three
\* simulator branches return before the request to tool_endpoints is
\* reached; any other name ends in `raise ValueError` before it.
FirstAwait(tool_name) ==
    IF tool_name \in {"note_maker", "flashcard_generator", "concept_explainer"}
    THEN "first_call"
    ELSE "value_error"

\* One _execute_single_tool coroutine.  pc: "created", "first_call" (awaiting
\* the simulator call of the try block), "second_call" (awaiting the one of
\* the handler), "done".  calls: the outcomes of its simulator calls so far.
NewTask(tool) ==
    [tool |-> tool, pc |-> "created", calls |-> <<>>, resp |-> NoResponse]

\* a handler that returns the failure response whatever its simulator call gave
AfterSimulatorHandlerFails(task, outcome) ==
    IF outcome = "ok" /\ task.pc = "first_call"
    THEN [task EXCEPT !.pc = "done", !.calls = Append(@, outcome),
                      !.resp = MockResponse(task.tool)]
    ELSE IF task.pc = "first_call"
    THEN [task EXCEPT !.pc = "second_call", !.calls = Append(@, outcome)]
    ELSE [task EXCEPT !.pc = "done", !.calls = Append(@, outcome),
                      !.resp = ToolResponse(task.tool, FALSE, "Both real API and mock failed")]

\* ToolOrchestrator._execute_single_tool, from the return of a simulator call
\* on: a call that returns gives its response; when the first call raises,
\* the handler calls the simulator again; when that raises too, the failure
\* response is returned.
AfterSimulator(task, outcome) ==
    IF outcome = "ok"
    THEN [task EXCEPT !.pc = "done", !.calls = Append(@, outcome),
                      !.resp = MockResponse(task.tool)]
    ELSE IF task.pc = "first_call"
    THEN [task EXCEPT !.pc = "second_call", !.calls = Append(@, outcome)]
    ELSE [task EXCEPT !.pc = "done", !.calls = Append(@, outcome),
                      !.resp = ToolResponse(task.tool, FALSE, "Both real API and mock failed")]

\* a gather that returns as soon as one call has failed
GatherReadyOnFirstFailure(ts) ==
    \/ \A i \in 1..Len(ts) : ts[i].pc = "done"
    \/ \E i \in 1..Len(ts) : ts[i].pc = "done" /\ ~ts[i].resp.success

\* asyncio.gather(*tasks, return_exceptions=True) returns once every task is done
GatherReady(ts) ==
    \A i \in 1..Len(ts) : ts[i].pc = "done"

\* results collected last task first
GatherResultsReversed(ts) ==
    [i \in 1..Len(ts) |-> ts[Len(ts) + 1 - i].resp]

\* the results of gather, in task order.  No coroutine ends with an
\* exception (every path of _execute_single_tool is inside try/except
\* Exception), so the conversion loop appends each result as it is.
GatherResults(ts) ==
    [i \in 1..Len(ts) |-> ts[i].resp]

(***************************************************************************)
(* OrchestrationAgent: the workflow                                        *)
(***************************************************************************)
\* validation_results[tool], (False, "") when absent
VerdictOf(validation_results, tool) ==
    IF \E i \in 1..Len(validation_results) : validation_results[i].tool = tool
    THEN LET i == CHOOSE i \in 1..Len(validation_results) : validation_results[i].tool = tool
         IN  validation_results[i].valid
    ELSE FALSE

\* _validate_parameters_node: the verdict of every extracted tool
ValidationResults(extracted) ==
    [i \in 1..Len(extracted) |->
        LET v == ValidateParameters(extracted[i].tool, extracted[i])
        IN  [tool |-> extracted[i].tool, valid |-> v.valid, reason |-> v.reason]]

\* _validate_parameters_node: failed_validations
FailedValidations(validation_results) ==
    SelectSeq(validation_results, LAMBDA v : ~v.valid)

\* _should_execute_tools
ShouldExecuteTools(error, validation_results) ==
    IF error # NULL /\ error # "" THEN "error"
    ELSE IF \E i \in 1..Len(validation_results) : validation_results[i].valid
    THEN "execute"
    ELSE "error"

\* _execute_tools_node: valid_params
ValidParams(extracted, validation_results) ==
    SelectSeq(extracted, LAMBDA e : VerdictOf(validation_results, e.tool))

\* a success test that counts every response
SuccessfulToolsUnfiltered(responses) ==
    responses

\* _execute_tools_node: successful_tools
SuccessfulTools(responses) ==
    SelectSeq(responses, LAMBDA r : r.success)

\* a graph whose execute_tools node is wired to handle_error
NextNodeExecuteToError(node, error, validation_results) ==
    CASE node = "analyze_context" -> "extract_parameters"
      [] node = "extract_parameters" -> "validate_parameters"
      [] node = "validate_parameters" ->
            IF ShouldExecuteTools(error, validation_results) = "execute"
            THEN "execute_tools" ELSE "handle_error"
      [] node = "execute_tools" -> "handle_error"
      [] node = "generate_response" -> "END"
      [] node = "handle_error" -> "END"

\* a graph whose error edge leads to generate_response
NextNodeErrorToGenerate(node, error, validation_results) ==
    CASE node = "analyze_context" -> "extract_parameters"
      [] node = "extract_parameters" -> "validate_parameters"
      [] node = "validate_parameters" ->
            IF ShouldExecuteTools(error, validation_results) = "execute"
            THEN "execute_tools" ELSE "generate_response"
      [] node = "execute_tools" -> "generate_response"
      [] node = "generate_response" -> "END"
      [] node = "handle_error" -> "END"

\* _build_workflow: the node that follows `node`
NextNode(node, error, validation_results) ==
    CASE node = "analyze_context" -> "extract_parameters"
      [] node = "extract_parameters" -> "validate_parameters"
      [] node = "validate_parameters" ->
            IF ShouldExecuteTools(error, validation_results) = "execute"
            THEN "execute_tools" ELSE "handle_error"
      [] node = "execute_tools" -> "generate_response"
      [] node = "generate_response" -> "END"
      [] node = "handle_error" -> "END"

\* a response that leaves the error message out
OrchestrationResponseNoError(succ, selected, extracted, responses, reason, error) ==
    [success |-> succ, selected_tools |-> selected, extracted_parameters |-> extracted,
     tool_responses |-> responses, reasoning |-> reason, error_message |-> NULL]

\* OrchestrationResponse
OrchestrationResponse(succ, selected, extracted, responses, reason, error) ==
    [success |-> succ, selected_tools |-> selected, extracted_parameters |-> extracted,
     tool_responses |-> responses, reasoning |-> reason, error_message |-> error]


(***************************************************************************)
(* State                                                                   *)
(***************************************************************************)
VARIABLES
    request,               \* state["request"]
    intent_analysis,       \* state["intent_analysis"]
    extracted_parameters,  \* state["extracted_parameters"]
    validation_results,    \* state["validation_results"]
    tool_responses,        \* state["tool_responses"]
    reasoning,             \* state["reasoning"], one element per appended sentence
    error_message,         \* state["error_message"]
    success,               \* state["success"]
    pc,                    \* the node the workflow is at, "gather" inside execute_tools
    visited,               \* the nodes the workflow has run, in order
    tool_parameters,       \* the mapping execute_tools was called with
    tasks,                 \* the coroutines of the running execute_tools call
    exc,                   \* the text of the exception that escaped the workflow
    result,                \* the OrchestrationResponse returned by orchestrate
    fn,                    \* the method under call: orchestrate, or one called on its own
    args,                  \* the arguments of a method called on its own, as its caller holds them
    ret,                   \* what the calls of that method have returned, in order
    user_sessions,         \* StateManager.user_sessions: user id -> session dictionary
    conversation_history,  \* StateManager.conversation_history: user id -> list of turns
    now,                   \* datetime.now(), in hours
    appended,              \* the turns appended since the history was last cleared
    recorded,              \* the usage records made since the session was last discarded
    user_preferences       \* StateManager.user_preferences: user id -> preferences

vars ==
    <<request, intent_analysis, extracted_parameters, validation_results,
      tool_responses, reasoning, error_message, success, pc, visited,
      tool_parameters, tasks, exc, result, fn, args, ret,
      user_sessions, conversation_history, now, appended, recorded, user_preferences>>

\* the state of the StateManager, its clock and the calls it has served
session_vars ==
    <<user_sessions, conversation_history, now, appended, recorded, user_preferences>>

\* StateManager.__init__: no session, no history, no preferences
NewStateManager ==
    /\ user_sessions = EmptyDict
    /\ conversation_history = EmptyDict
    /\ user_preferences = EmptyDict
    /\ now = 0
    /\ appended = <<>>
    /\ recorded = <<>>

\* orchestrate: the initial workflow state, for a request of the caller
Init ==
    /\ request \in Requests
    /\ intent_analysis = [source |-> "unset", tools_needed |-> ListTN(<<>>)]
    /\ extracted_parameters = <<>>
    /\ validation_results = <<>>
    /\ tool_responses = <<>>
    /\ reasoning = <<>>
    /\ error_message = NULL
    /\ success = FALSE
    /\ pc = "analyze_context"
    /\ visited = <<>>
    /\ tool_parameters = <<>>
    /\ tasks = <<>>
    /\ exc = NULL
    /\ result = OrchestrationResponse(FALSE, <<>>, <<>>, <<>>, <<>>, NULL)
    /\ fn = "orchestrate"
    /\ args = NULL
    /\ ret = <<>>
    /\ NewStateManager

\* entering a node and leaving it along the edges of the graph
Enter(node) ==
    /\ pc = node
    /\ visited' = Append(visited, node)

\* OrchestrationAgent._analyze_context_node.  len(tools_needed) raises on a
\* value without a length, after intent_analysis has been stored.
AnalyzeContextNode ==
    /\ Enter("analyze_context")
    /\ \E reply \in IntentReplies :
         LET analysis == AnalyzeIntent(request, reply)
         IN  /\ intent_analysis' = analysis
             /\ IF analysis.tools_needed.t = "list"
                THEN /\ reasoning' = Append(reasoning, "Intent Analysis")
                     /\ error_message' = error_message
                ELSE /\ reasoning' = reasoning
                     /\ error_message' = "Context analysis failed"
    /\ pc' = NextNode("analyze_context", error_message', validation_results)
    /\ UNCHANGED <<request, extracted_parameters, validation_results, tool_responses,
                   success, tool_parameters, tasks, exc, result>>
    /\ UNCHANGED <<fn, args, ret>>
    /\ UNCHANGED session_vars

\* OrchestrationAgent._extract_parameters_node
ExtractParametersNode ==
    /\ Enter("extract_parameters")
    /\ LET tools_needed == intent_analysis.tools_needed
       IN  IF tools_needed.t = "none" \/ (tools_needed.t = "list" /\ tools_needed.l = <<>>)
           THEN /\ error_message' = "No tools identified from context analysis"
                /\ UNCHANGED <<extracted_parameters, reasoning>>
           ELSE \E reply \in ParameterReplies :
                  LET extracted == ExtractParameters(tools_needed, request, reply)
                      adapted == AdaptForTeachingStyle(extracted.value,
                                     request.teaching_style, request.user_info)
                  IN  IF extracted.raised \/ adapted.raised
                      THEN /\ error_message' = "Parameter extraction failed"
                           /\ UNCHANGED <<extracted_parameters, reasoning>>
                      ELSE /\ extracted_parameters' = adapted.value
                           /\ reasoning' = Append(reasoning, "Parameter Extraction")
                           /\ error_message' = error_message
    /\ pc' = NextNode("extract_parameters", error_message', validation_results)
    /\ UNCHANGED <<request, intent_analysis, validation_results, tool_responses,
                   success, tool_parameters, tasks, exc, result>>
    /\ UNCHANGED <<fn, args, ret>>
    /\ UNCHANGED session_vars

\* OrchestrationAgent._validate_parameters_node, then the conditional edge
ValidateParametersNode ==
    /\ Enter("validate_parameters")
    /\ validation_results' = ValidationResults(extracted_parameters)
    /\ IF FailedValidations(validation_results') # <<>>
       THEN /\ error_message' = "Parameter validation failed"
            /\ reasoning' = reasoning
       ELSE /\ error_message' = error_message
            /\ reasoning' = Append(reasoning, "Parameter Validation")
    /\ pc' = NextNode("validate_parameters", error_message', validation_results')
    /\ UNCHANGED <<request, intent_analysis, extracted_parameters, tool_responses,
                   success, tool_parameters, tasks, exc, result>>
    /\ UNCHANGED <<fn, args, ret>>
    /\ UNCHANGED session_vars

\* _execute_tools_node from the return of execute_tools on
CompleteExecution(responses) ==
    /\ tool_responses' = responses
    /\ IF SuccessfulTools(responses) # <<>>
       THEN /\ success' = TRUE
            /\ reasoning' = Append(reasoning, "Tool Execution")
            /\ error_message' = error_message
       ELSE /\ success' = success
            /\ reasoning' = reasoning
            /\ error_message' = "All tool executions failed"
    /\ pc' = NextNode("execute_tools", error_message', validation_results)

\* OrchestrationAgent._execute_tools_node up to the await of gather:
\* execute_tools creates one coroutine per known tool of valid_params and
\* returns [] at once when there is none.
ExecuteToolsBegin ==
    /\ Enter("execute_tools")
    /\ LET valid_params == ValidParams(extracted_parameters, validation_results)
           dispatched == DispatchedTools(valid_params)
       IN  IF valid_params = <<>>
           THEN /\ error_message' = "No valid parameters for tool execution"
                /\ pc' = NextNode("execute_tools", error_message', validation_results)
                /\ UNCHANGED <<tool_responses, success, reasoning, tool_parameters, tasks>>
           ELSE IF dispatched = <<>>
           THEN /\ tool_parameters' = valid_params
                /\ CompleteExecution(<<>>)
                /\ tasks' = tasks
           ELSE /\ tool_parameters' = valid_params
                /\ tasks' = [i \in 1..Len(dispatched) |-> NewTask(dispatched[i])]
                /\ pc' = "gather"
                /\ UNCHANGED <<tool_responses, success, reasoning, error_message>>
    /\ UNCHANGED <<request, intent_analysis, extracted_parameters, validation_results,
                   exc, result>>
    /\ UNCHANGED <<fn, args, ret>>
    /\ UNCHANGED session_vars

\* a coroutine starts and awaits the simulator (the try block of
\* _execute_single_tool)
TaskStart(i) ==
    /\ pc = "gather"
    /\ tasks[i].pc = "created"
    /\ tasks' = [tasks EXCEPT ![i].pc = FirstAwait(tasks[i].tool)]
    /\ UNCHANGED <<request, intent_analysis, extracted_parameters, validation_results,
                   tool_responses, reasoning, error_message, success, pc, visited,
                   tool_parameters, exc, result>>
    /\ UNCHANGED <<fn, args, ret>>
    /\ UNCHANGED session_vars

\* the awaited simulator call of coroutine i returns or raises
SimulatorReturns(i, outcome) ==
    /\ pc = "gather"
    /\ tasks[i].pc \in {"first_call", "second_call"}
    /\ tasks' = [tasks EXCEPT ![i] = AfterSimulator(tasks[i], outcome)]
    /\ UNCHANGED <<request, intent_analysis, extracted_parameters, validation_results,
                   tool_responses, reasoning, error_message, success, pc, visited,
                   tool_parameters, exc, result>>
    /\ UNCHANGED <<fn, args, ret>>
    /\ UNCHANGED session_vars

\* gather returns and _execute_tools_node runs to its end
ExecuteToolsEnd ==
    /\ pc = "gather"
    /\ GatherReady(tasks)
    /\ CompleteExecution(GatherResults(tasks))
    /\ UNCHANGED <<request, intent_analysis, extracted_parameters, validation_results,
                   visited, tool_parameters, tasks, exc, result>>
    /\ UNCHANGED <<fn, args, ret>>
    /\ UNCHANGED session_vars

\* OrchestrationAgent._generate_response_node
GenerateResponseNode ==
    /\ Enter("generate_response")
    /\ reasoning' = IF success THEN Append(reasoning, "Orchestration completed successfully")
                    ELSE reasoning
    /\ pc' = NextNode("generate_response", error_message, validation_results)
    /\ UNCHANGED <<request, intent_analysis, extracted_parameters, validation_results,
                   tool_responses, error_message, success, tool_parameters, tasks, exc, result>>
    /\ UNCHANGED <<fn, args, ret>>
    /\ UNCHANGED session_vars

\* OrchestrationAgent._handle_error_node
HandleErrorNode ==
    /\ Enter("handle_error")
    /\ success' = FALSE
    /\ reasoning' = IF reasoning = <<>>
                    THEN <<"Orchestration failed due to validation or execution errors.">>
                    ELSE reasoning
    /\ pc' = NextNode("handle_error", error_message, validation_results)
    /\ UNCHANGED <<request, intent_analysis, extracted_parameters, validation_results,
                   tool_responses, error_message, tool_parameters, tasks, exc, result>>
    /\ UNCHANGED <<fn, args, ret>>
    /\ UNCHANGED session_vars

\* orchestrate: ainvoke has returned the final state; the response is built
OrchestrateReturn ==
    /\ pc = "END"
    /\ result' = OrchestrationResponse(success, Keys(extracted_parameters),
                     extracted_parameters, tool_responses, reasoning, error_message)
    /\ pc' = "returned"
    /\ UNCHANGED <<request, intent_analysis, extracted_parameters, validation_results,
                   tool_responses, reasoning, error_message, success, visited, tool_parameters, tasks, exc>>
    /\ UNCHANGED <<fn, args, ret>>
    /\ UNCHANGED session_vars

Next ==
    \/ AnalyzeContextNode
    \/ ExtractParametersNode
    \/ ValidateParametersNode
    \/ ExecuteToolsBegin
    \/ \E i \in 1..Len(tasks) : TaskStart(i)
    \/ \E i \in 1..Len(tasks) : \E outcome \in {"ok", "fail"} : SimulatorReturns(i, outcome)
    \/ ExecuteToolsEnd
    \/ GenerateResponseNode
    \/ HandleErrorNode
    \/ OrchestrateReturn

Spec == Init /\ [][Next]_vars

\* an except branch that builds the response from the workflow state
ExceptResponseFromState(e) ==
    OrchestrationResponse(success, Keys(extracted_parameters), extracted_parameters,
                          tool_responses, reasoning, e)

\* orchestrate: the response of the except branch
ExceptResponse(e) ==
    OrchestrationResponse(FALSE, <<>>, <<>>, <<>>, <<"Workflow execution failed">>, e)

\* the text of an exception raised by the workflow engine itself
EngineErrors == {"Recursion limit reached", ""}

\* orchestrate: `await self.workflow.ainvoke(state)` raises and the except
\* branch returns the failed response
WorkflowRaises ==
    /\ pc \in {"analyze_context", "extract_parameters", "validate_parameters",
               "execute_tools", "gather", "generate_response", "handle_error"}
    /\ \E e \in EngineErrors :
         /\ exc' = e
         /\ result' = ExceptResponse(e)
    /\ pc' = "returned"
    /\ UNCHANGED <<request, intent_analysis, extracted_parameters, validation_results,
                   tool_responses, reasoning, error_message, success, visited, tool_parameters, tasks>>
    /\ UNCHANGED <<fn, args, ret>>
    /\ UNCHANGED session_vars

NextFault == Next \/ WorkflowRaises

\* the runs in which the workflow engine may fail at any point
SpecFault == Init /\ [][NextFault]_vars


(***************************************************************************)
(* Properties                                                              *)
(***************************************************************************)
\* C1: orchestrate never raises to its caller.  Whatever the completion
\* call, the extractor, the validator and the dispatcher do (raising
\* included), the run is at a node of the workflow, awaiting its tool calls,
\* or has returned; a returned result carries a boolean success; and when an
\* exception escapes the workflow the run has returned a result with
\* success = false, no selected tools, no tool responses and the exception
\* text as error_message.
C1_OrchestrateNeverRaises ==
    /\ pc \in {"analyze_context", "extract_parameters", "validate_parameters",
                "execute_tools", "gather", "generate_response", "handle_error",
                "END", "returned"}
    /\ pc = "returned" => result.success \in BOOLEAN
    /\ exc # NULL =>
         /\ pc = "returned"
         /\ result.success = FALSE
         /\ result.selected_tools = <<>>
         /\ result.tool_responses = <<>>
         /\ result.error_message = exc

\* an exception escaped the workflow after tools had been run with success
C1_Witness ==
    /\ exc # NULL
    /\ success
    /\ tool_responses # <<>>
    /\ pc = "returned"
    /\ ~result.success

\* C2: partial-success policy, as claimed.  Once validation has run and at
\* least one tool passed it, the run goes to execute_tools and never to
\* handle_error, and execute_tools is called with exactly the passing tools.
C2_PartialSuccessDispatch ==
    LET passing == SelectSeq(validation_results, LAMBDA v : v.valid)
    IN  ("validate_parameters" \in Range(visited) /\ passing # <<>>) =>
            /\ pc # "handle_error"
            /\ "handle_error" \notin Range(visited)
            /\ "execute_tools" \in Range(visited) =>
                   Keys(tool_parameters) = [i \in 1..Len(passing) |-> passing[i].tool]

\* C3: every tool handed to the dispatcher, every call it creates and every
\* ToolResult in tool_responses belongs to a tool whose recorded verdict is
\* valid, and tool_responses is no longer than the number of valid verdicts.
C3_DispatchedToolsAreValid ==
    LET passed(t) == \E i \in 1..Len(validation_results) :
                        validation_results[i].tool = t /\ validation_results[i].valid
        npassed == Cardinality({i \in 1..Len(validation_results) : validation_results[i].valid})
    IN  /\ \A i \in 1..Len(tool_parameters) : passed(tool_parameters[i].tool)
        /\ \A i \in 1..Len(tasks) : passed(tasks[i].tool)
        /\ \A i \in 1..Len(tool_responses) : passed(tool_responses[i].tool_name)
        /\ Len(tool_responses) <= npassed
        /\ \A i \in 1..Len(result.tool_responses) : passed(result.tool_responses[i].tool_name)
        /\ Len(result.tool_responses) <= npassed

\* a returned run with a ToolResult, and with fewer results than valid verdicts
C3_Witness ==
    /\ pc = "returned"
    /\ result.tool_responses # <<>>
    /\ Len(result.tool_responses) <
          Cardinality({i \in 1..Len(validation_results) : validation_results[i].valid})

\* C4: the returned success flag is true exactly when execute_tools ran and
\* at least one returned ToolResult has success = true.
C4_SuccessIffToolSucceeded ==
    pc = "returned" =>
        (result.success <=>
            /\ "execute_tools" \in Range(visited)
            /\ \E i \in 1..Len(result.tool_responses) : result.tool_responses[i].success)

\* a successful result that also holds a failed ToolResult
C4_Witness ==
    /\ pc = "returned"
    /\ result.success
    /\ \E i \in 1..Len(result.tool_responses) : ~result.tool_responses[i].success

\* C5: the nodes run in the order analyze_context, extract_parameters,
\* validate_parameters, then either execute_tools and generate_response or
\* handle_error, each at most once and never both branches; a returned run
\* has run one of the two full sequences; and the run terminates: every step
\* extends the sequence of nodes run so far within one of the two paths and
\* moves the workflow forward along its stages or, while execute_tools
\* awaits its calls, moves one call forward and none back.
C5_StageOrder ==
    [][LET execute_path == <<"analyze_context", "extract_parameters", "validate_parameters",
                             "execute_tools", "generate_response">>
           error_path == <<"analyze_context", "extract_parameters", "validate_parameters",
                           "handle_error">>
           prefix(s, q) == Len(s) <= Len(q) /\ s = SubSeq(q, 1, Len(s))
           stage(p) == CASE p = "analyze_context" -> 0
                         [] p = "extract_parameters" -> 1
                         [] p = "validate_parameters" -> 2
                         [] p = "execute_tools" -> 3
                         [] p = "gather" -> 4
                         [] p \in {"generate_response", "handle_error"} -> 5
                         [] p = "END" -> 6
                         [] p = "returned" -> 7
           step(t) == CASE t.pc = "created" -> 0
                        [] t.pc = "first_call" -> 1
                        [] t.pc = "second_call" -> 2
                        [] t.pc = "done" -> 3
       IN  /\ prefix(visited, execute_path) \/ prefix(visited, error_path)
           /\ prefix(visited', execute_path) \/ prefix(visited', error_path)
           /\ prefix(visited, visited')
           /\ pc' = "returned" => visited' \in {execute_path, error_path}
           /\ \/ stage(pc') > stage(pc)
              \/ /\ pc' = pc
                 /\ pc = "gather"
                 /\ Len(tasks') = Len(tasks)
                 /\ \A i \in 1..Len(tasks) : step(tasks'[i]) >= step(tasks[i])
                 /\ \E i \in 1..Len(tasks) : step(tasks'[i]) > step(tasks[i])]_vars

\* a returned run that went through execute_tools and generate_response
C5_Witness ==
    /\ pc = "returned"
    /\ visited = <<"analyze_context", "extract_parameters", "validate_parameters",
                   "execute_tools", "generate_response">>

\* C6: for every finished call of a known tool, a simulator call that
\* returned gives a ToolResult with success = true whatever raised before it,
\* and a ToolResult with success = false comes only from a simulator that
\* raised on every call; tool_responses holds these results.
C6_SimulatorSuccessWins ==
    /\ \A i \in 1..Len(tasks) :
          tasks[i].pc = "done" =>
              /\ (\E k \in 1..Len(tasks[i].calls) : tasks[i].calls[k] = "ok")
                    => tasks[i].resp.success
              /\ ~tasks[i].resp.success =>
                    /\ tasks[i].calls # <<>>
                    /\ \A k \in 1..Len(tasks[i].calls) : tasks[i].calls[k] = "fail"
    /\ \A i \in 1..Len(tool_responses) :
          \E j \in 1..Len(tasks) :
              /\ tasks[j].tool = tool_responses[i].tool_name
              /\ tool_responses[i].success
                    <=> \E k \in 1..Len(tasks[j].calls) : tasks[j].calls[k] = "ok"

\* a returned ToolResult with success = true whose first simulator call raised
C6_Witness ==
    /\ pc = "returned"
    /\ \E i \in 1..Len(tasks) :
          /\ tasks[i].calls = <<"fail", "ok">>
          /\ result.tool_responses[i].success
          /\ result.tool_responses[i].tool_name = tasks[i].tool

\* C7 as claimed: once execute_tools has returned there is one ToolResult
\* for each tool of its input mapping, whatever the names, the i-th for the
\* i-th tool.
C7_OneResultPerInputTool ==
    ("generate_response" \in Range(visited) \/ pc = "generate_response") =>
        /\ Len(tool_responses) = Len(tool_parameters)
        /\ \A i \in 1..Len(tool_responses) :
              tool_responses[i].tool_name = tool_parameters[i].tool

\* C7 as amended: once execute_tools has returned there is one ToolResult
\* for each tool of its input mapping that is one of the three known tools
\* (a name without an endpoint gets no result), the i-th result for the i-th
\* known tool in the iteration order of the input.
C7_OneResultPerKnownTool ==
    LET known == SelectSeq(Keys(tool_parameters),
                           LAMBDA t : t \in {"note_maker", "flashcard_generator", "concept_explainer"})
    IN  ("generate_response" \in Range(visited) \/ pc = "generate_response") =>
            /\ Len(tool_responses) = Len(known)
            /\ \A i \in 1..Len(tool_responses) : tool_responses[i].tool_name = known[i]

\* execute_tools was called with an unknown and a known tool and returned
\* one result
C7_Witness ==
    /\ pc = "returned"
    /\ Len(tool_parameters) = 2
    /\ \E i \in 1..2 : tool_parameters[i].tool \notin KnownTools
    /\ Len(tool_responses) = 1

\* C8: fan-out/fan-in.  While execute_tools waits there is one call per
\* requested tool; it returns only when every call is done, a failed call
\* leaves its siblings to finish, and every call contributes its own result.
C8_FanOutFanIn ==
    /\ pc = "gather" =>
          /\ Len(tasks) = Cardinality({i \in 1..Len(tool_parameters) :
                                          tool_parameters[i].tool \in KnownTools})
          /\ \A i \in 1..Len(tasks) : HasKey(tool_parameters, tasks[i].tool)
          /\ \A i, j \in 1..Len(tasks) : tasks[i].tool = tasks[j].tool => i = j
    /\ ("generate_response" \in Range(visited) \/ pc = "generate_response") =>
          /\ \A i \in 1..Len(tasks) : tasks[i].pc = "done"
          /\ Len(tool_responses) = Len(tasks)
          /\ \A i \in 1..Len(tasks) :
                /\ tool_responses[i] = tasks[i].resp
                /\ tool_responses[i].tool_name = tasks[i].tool

\* two calls ran, one failed and its sibling still delivered a success
C8_Witness ==
    /\ pc = "returned"
    /\ Len(tasks) = 2
    /\ \E i, j \in 1..2 :
          /\ ~result.tool_responses[i].success
          /\ tasks[i].calls = <<"fail", "fail">>
          /\ result.tool_responses[j].success

\* C9 as claimed: nothing is retried, the simulator of a dispatched tool is
\* invoked at most once.
C9_SimulatorInvokedAtMostOnce ==
    \A i \in 1..Len(tasks) :
        /\ tasks[i].pc # "second_call"
        /\ Len(tasks[i].calls) <= 1

\* C10 as claimed: a tool name that is none of the three known tools gets
\* the verdict is_valid = false with a non-empty reason.
C10_UnknownToolRejected ==
    \A i \in 1..Len(validation_results) :
        validation_results[i].tool \notin KnownTools =>
            /\ ~validation_results[i].valid
            /\ validation_results[i].reason \notin {NULL, ""}

(***************************************************************************)
(* Methods called on their own                                             *)
(***************************************************************************)
\* the workflow state of orchestrate
workflow_vars ==
    <<request, intent_analysis, extracted_parameters, validation_results,
      tool_responses, reasoning, error_message, success, pc, visited,
      tool_parameters, tasks, exc, result>>

\* no orchestration is running: method f is called directly with arguments
\* drawn from inputs
Standalone(f, inputs) ==
    /\ request = OrchestrationRequest(MsgHello, "direct",
                                      UserInfo(EmoFocused, MasteryLevel5, LearnVisual))
    /\ intent_analysis = [source |-> "unset", tools_needed |-> ListTN(<<>>)]
    /\ extracted_parameters = <<>>
    /\ validation_results = <<>>
    /\ tool_responses = <<>>
    /\ reasoning = <<>>
    /\ error_message = NULL
    /\ success = FALSE
    /\ pc = "idle"
    /\ visited = <<>>
    /\ tool_parameters = <<>>
    /\ tasks = <<>>
    /\ exc = NULL
    /\ result = OrchestrationResponse(FALSE, <<>>, <<>>, <<>>, <<>>, NULL)
    /\ fn = f
    /\ args \in inputs
    /\ ret = <<>>
    /\ NewStateManager

(***************************************************************************)
(* ToolOrchestrator.validate_parameters called on its own                  *)
(***************************************************************************)
\* the values a field of a parameter dictionary is given: inside and outside
\* its enumeration, at and just beyond the ends of the count range, and of
\* another type
FieldValues(field) ==
    IF field = "note_taking_style"
    THEN {S("outline"), S("structured"), S("mindmap"), N(1)}
    ELSE IF field = "count"
    THEN {N(MinCount - 1), N(MinCount), N(MaxCount), N(MaxCount + 1), S("seven")}
    ELSE IF field = "difficulty" THEN {S("easy"), S("hard"), S("extreme")}
    ELSE IF field = "desired_depth" THEN {S("basic"), S("comprehensive"), S("expert")}
    ELSE {S("llm")}

\* the dictionaries over any part of the required fields of a tool
ParamDicts(tool_name) ==
    LET values == UNION {FieldValues(k) : k \in RequiredKeys(tool_name)}
    IN  UNION { { d \in [K -> values] : \A k \in K : d[k] \in FieldValues(k) } :
                K \in SUBSET RequiredKeys(tool_name) }

\* the arguments of validate_parameters: a dictionary for a known tool, a
\* value that is no dictionary, or a name that is no tool
ValidateInputs ==
    {[tool_name |-> t, params |-> Entry(t, FALSE, EmptyDict)] : t \in LLMToolNames}
    \cup {[tool_name |-> UnknownTool, params |-> Entry(UnknownTool, TRUE, EmptyDict)]}
    \cup UNION { {[tool_name |-> t, params |-> Entry(t, TRUE, d)] : d \in ParamDicts(t)} :
                 t \in KnownTools }

\* the most keys the caller adds to a dictionary it has had validated
MaxExtraKeys == 1

\* keys a caller may add: one that no schema holds, and fields of other tools
ExtraKeys == {"language", "count", "desired_depth"}

ExtraValues == {S("llm"), N(MaxCount + 1)}

ValidateInit ==
    Standalone("validate_parameters", ValidateInputs)

\* validate_parameters(tool_name, params) returns its verdict
ValidateCall ==
    /\ fn = "validate_parameters"
    /\ ret = <<>>
    /\ ret' = <<[params |-> args.params,
                 verdict |-> ValidateParameters(args.tool_name, args.params)]>>
    /\ UNCHANGED <<fn, args>>
    /\ UNCHANGED workflow_vars
    /\ UNCHANGED session_vars

\* the caller adds a key outside the tool's schema to the dictionary and has
\* it validated again
ValidateWithExtraKey(key, value) ==
    /\ fn = "validate_parameters"
    /\ ret # <<>>
    /\ Len(ret) <= MaxExtraKeys
    /\ args.params.isdict
    /\ key \notin SchemaKeys(args.tool_name)
    /\ key \notin DOMAIN args.params.params
    /\ LET extended == Entry(args.tool_name, TRUE, Put(args.params.params, key, value))
       IN  /\ args' = [args EXCEPT !.params = extended]
           /\ ret' = Append(ret, [params |-> extended,
                                  verdict |-> ValidateParameters(args.tool_name, extended)])
    /\ UNCHANGED fn
    /\ UNCHANGED workflow_vars
    /\ UNCHANGED session_vars

ValidateNext ==
    \/ ValidateCall
    \/ \E key \in ExtraKeys : \E value \in ExtraValues : ValidateWithExtraKey(key, value)

ValidateSpec == ValidateInit /\ [][ValidateNext]_vars

\* C11: for each of the three tools and every parameter value, the verdict
\* is valid exactly when the value is a dictionary that holds every required
\* key of the tool with note_taking_style, count, difficulty and
\* desired_depth inside their sets, and the reason is None exactly when the
\* verdict is valid.
C11_ValidIffSchemaHolds ==
    \A i \in 1..Len(ret) :
        (fn = "validate_parameters" /\ args.tool_name \in KnownTools) =>
            LET p == ret[i].params.params
                has(k) == k \in DOMAIN p
                required ==
                    IF args.tool_name = "note_maker"
                    THEN has("topic") /\ has("subject") /\ has("note_taking_style")
                    ELSE IF args.tool_name = "flashcard_generator"
                    THEN has("topic") /\ has("count") /\ has("difficulty") /\ has("subject")
                    ELSE has("concept_to_explain") /\ has("current_topic") /\ has("desired_depth")
                constrained ==
                    IF args.tool_name = "note_maker"
                    THEN p["note_taking_style"].t = "str"
                         /\ p["note_taking_style"].s \in
                               {"outline", "bullet_points", "narrative", "structured"}
                    ELSE IF args.tool_name = "flashcard_generator"
                    THEN /\ p["count"].t = "int"
                         /\ p["count"].n \in 1..20
                         /\ p["difficulty"].t = "str"
                         /\ p["difficulty"].s \in {"easy", "medium", "hard"}
                    ELSE p["desired_depth"].t = "str"
                         /\ p["desired_depth"].s \in
                               {"basic", "intermediate", "advanced", "comprehensive"}
            IN  /\ ret[i].verdict.valid <=> (ret[i].params.isdict /\ required /\ constrained)
                /\ ret[i].verdict.valid <=> (ret[i].verdict.reason = NULL)

\* a flashcard dictionary with count 20 was accepted
C11_Witness ==
    /\ fn = "validate_parameters"
    /\ args.tool_name = "flashcard_generator"
    /\ ret # <<>>
    /\ ret[1].verdict.valid
    /\ ret[1].params.params["count"] = N(20)

\* C12: validation is monotonic in extra keys.  A dictionary that was
\* accepted is accepted again after any key outside the tool's schema has
\* been added to it.
C12_ExtraKeysKeepValid ==
    \A i, j \in 1..Len(ret) :
        (fn = "validate_parameters" /\ i < j) =>
            /\ DOMAIN ret[i].params.params \subseteq DOMAIN ret[j].params.params
            /\ \A k \in DOMAIN ret[i].params.params :
                  ret[j].params.params[k] = ret[i].params.params[k]
            /\ ret[i].verdict.valid => ret[j].verdict.valid

\* an accepted dictionary of a known tool was extended and accepted again
C12_Witness ==
    /\ fn = "validate_parameters"
    /\ args.tool_name \in KnownTools
    /\ Len(ret) >= 2
    /\ ret[1].verdict.valid
    /\ DOMAIN ret[2].params.params # DOMAIN ret[1].params.params
    /\ ret[2].verdict.valid

(***************************************************************************)
(* ContextAnalyzer methods called on their own                             *)
(***************************************************************************)
\* the words messages are made of: with and without a keyword of a tool, in
\* lower, upper and mixed case
Words ==
    { <<"h","e","l","l","o">>,
      <<"N","o","t","e","s">>,
      <<"S","U","M","M","A","R","Y">>,
      <<"F","l","a","s","h"," ","C","a","r","d">>,
      <<"q","u","i","z">>,
      <<"E","x","p","l","a","i","n">>,
      <<"w","h","a","t"," ","i","s">>,
      <<"r","e","v","i","e","w">> }

\* the most words of a message
MaxWords == 2

RECURSIVE JoinWords(_)
\* " ".join(ws)
JoinWords(ws) ==
    IF ws = <<>> THEN <<>>
    ELSE IF Len(ws) = 1 THEN ws[1]
    ELSE ws[1] \o <<" ">> \o JoinWords(Tail(ws))

\* the messages of the requests: the empty one, and up to MaxWords words
Messages ==
    {JoinWords(ws) : ws \in UNION {[1..k -> Words] : k \in 0..MaxWords}}
    \cup {MsgQuantum, MsgSpanish, MsgNotesQuiz}

\* the tools_needed values extract_parameters is called with: what the
\* intent analysis found under "tools_needed", a list or a number
ToolsNeededInputs ==
    {IntTN} \cup {ListTN(l) : l \in NoDupSeqs(LLMToolNames, MaxReplyTools)}

AnalyzerInit ==
    \/ Standalone("analyze_intent", {[request |-> r] : r \in Requests})
    \/ Standalone("extract_parameters",
                  {[tools_needed |-> tn, request |-> r] :
                      tn \in ToolsNeededInputs, r \in Requests})
    \/ Standalone("_fallback_intent_analysis", {[message |-> m] : m \in Messages})

\* analyze_intent returns: the handler catches every exception of the try
\* block and the fallback reads only the message, a str
AnalyzeIntentCall ==
    /\ fn = "analyze_intent"
    /\ ret = <<>>
    /\ \E reply \in IntentReplies :
         ret' = <<[reply |-> reply, raised |-> FALSE,
                   value |-> AnalyzeIntent(args.request, reply)]>>
    /\ UNCHANGED <<fn, args>>
    /\ UNCHANGED workflow_vars
    /\ UNCHANGED session_vars

\* extract_parameters returns or raises
ExtractParametersCall ==
    /\ fn = "extract_parameters"
    /\ ret = <<>>
    /\ \E reply \in ParameterReplies :
         LET r == ExtractParameters(args.tools_needed, args.request, reply)
         IN  ret' = <<[reply |-> reply, raised |-> r.raised, value |-> r.value]>>
    /\ UNCHANGED <<fn, args>>
    /\ UNCHANGED workflow_vars
    /\ UNCHANGED session_vars

\* _fallback_intent_analysis returns
FallbackIntentAnalysisCall ==
    /\ fn = "_fallback_intent_analysis"
    /\ ret = <<>>
    /\ ret' = <<[raised |-> FALSE, value |-> FallbackIntentAnalysis(args.message)]>>
    /\ UNCHANGED <<fn, args>>
    /\ UNCHANGED workflow_vars
    /\ UNCHANGED session_vars

AnalyzerNext ==
    \/ AnalyzeIntentCall
    \/ ExtractParametersCall
    \/ FallbackIntentAnalysisCall

AnalyzerSpec == AnalyzerInit /\ [][AnalyzerNext]_vars

\* C13 as claimed: for every tools_needed list and every outcome of the
\* completion call, the keys of the mapping extract_parameters returns are
\* exactly the tools of tools_needed.
C13_KeysAreToolsNeeded ==
    (fn = "extract_parameters" /\ ret # <<>> /\ args.tools_needed.t = "list") =>
        /\ ~ret[1].raised
        /\ Range(Keys(ret[1].value)) = Range(args.tools_needed.l)

\* C14 as claimed: a reply that decodes to a dictionary without some tool of
\* tools_needed is discarded and the fallback parameter set is returned.
C14_PartialReplyDiscarded ==
    (/\ fn = "extract_parameters"
     /\ ret # <<>>
     /\ args.tools_needed.t = "list"
     /\ ret[1].reply.kind = "json"
     /\ \E i \in 1..Len(args.tools_needed.l) :
           ~HasKey(ret[1].reply.result, args.tools_needed.l[i])) =>
        /\ ~ret[1].raised
        /\ ret[1].value = FallbackParameterExtraction(args.tools_needed.l,
                              args.request.current_message, args.request.user_info)

\* C15 as claimed: analyze_intent and extract_parameters never raise, and
\* when the completion call raises or its reply cannot be decoded they
\* return what the fallback returns.
C15_AnalyzerNeverRaises ==
    /\ (fn = "analyze_intent" /\ ret # <<>>) =>
          /\ ~ret[1].raised
          /\ ret[1].reply.kind \in {"raise", "nojson"} =>
                ret[1].value = FallbackIntentAnalysis(args.request.current_message)
    /\ (fn = "extract_parameters" /\ ret # <<>>) =>
          /\ ~ret[1].raised
          /\ ret[1].reply.kind \in {"raise", "nojson"} =>
                ret[1].value = FallbackParameterExtraction(args.tools_needed.l,
                                   args.request.current_message, args.request.user_info)

\* C16: the tools_needed of the fallback intent analysis is never empty, has
\* no tool twice, holds only the three known tools, and is exactly
\* [concept_explainer] when the message holds no keyword of any tool.
C16_FallbackToolsNeeded ==
    (fn = "_fallback_intent_analysis" /\ ret # <<>>) =>
        LET tn == ret[1].value.tools_needed.l
            lower == Lower(args.message)
            keyword == \/ \E i \in 1..Len(NoteKeywords) : Contains(lower, NoteKeywords[i])
                       \/ \E i \in 1..Len(FlashcardKeywords) : Contains(lower, FlashcardKeywords[i])
                       \/ \E i \in 1..Len(ExplainKeywords) : Contains(lower, ExplainKeywords[i])
        IN  /\ ret[1].value.tools_needed.t = "list"
            /\ tn # <<>>
            /\ \A i, j \in 1..Len(tn) : tn[i] = tn[j] => i = j
            /\ \A i \in 1..Len(tn) : tn[i] \in {"note_maker", "flashcard_generator", "concept_explainer"}
            /\ ~keyword => tn = <<"concept_explainer">>

\* a message of words without any keyword got the default tool
C16_Witness ==
    /\ fn = "_fallback_intent_analysis"
    /\ ret # <<>>
    /\ Len(args.message) > 5
    /\ ~AnyIn(ExplainKeywords, Lower(args.message))
    /\ ret[1].value.tools_needed.l = <<"concept_explainer">>

(***************************************************************************)
(* OrchestrationAgent._adapt_for_teaching_style called on its own          *)
(***************************************************************************)
\* the values adapt finds under a tool: dictionaries with the fields its
\* rules read and write (difficulty, counts below, at and above the ends the
\* rules name, a count that is no number, no count at all) and a value that
\* is no dictionary
AdaptParamOptions(tool) ==
    IF tool = "note_maker" THEN
        { Entry(tool, TRUE, [topic |-> S("llm"), subject |-> S("llm"),
                             note_taking_style |-> S("narrative"),
                             include_analogies |-> B(TRUE)]),
          Entry(tool, TRUE, [topic |-> S("llm")]) }
    ELSE IF tool = "flashcard_generator" THEN
        { Entry(tool, TRUE, [topic |-> S("llm"), count |-> c, difficulty |-> S(d), subject |-> S("llm")]) :
            c \in {N(1), N(3), N(4), N(MaxCount - 2), N(MaxCount - 1), N(MaxCount), S("seven")},
            d \in {"easy", "hard"} }
        \cup { Entry(tool, TRUE, [topic |-> S("llm")]) }
    ELSE IF tool = "concept_explainer" THEN
        { Entry(tool, TRUE, [concept_to_explain |-> S("llm"), current_topic |-> S("llm"),
                             desired_depth |-> S("advanced")]),
          Entry(tool, FALSE, EmptyDict) }
    ELSE { Entry(tool, TRUE, EmptyDict) }

\* the most tools of a mapping passed to adapt
MaxAdaptTools == 2

\* the mappings passed to adapt: at most MaxAdaptTools keys
AdaptDicts ==
    UNION { { d \in [1..Len(ks) -> UNION {AdaptParamOptions(t) : t \in LLMToolNames}] :
                \A i \in 1..Len(ks) : d[i] \in AdaptParamOptions(ks[i]) } :
            ks \in NoDupSeqs(LLMToolNames, MaxAdaptTools) }

\* the profiles: each marker alone, and "anxious" together with "focused"
AdaptProfiles ==
    {UserInfo(e, MasteryLevel5, LearnVisual) :
        e \in {EmoFocused, EmoAnxious, EmoConfused, EmoAnxiousFocused}}

AdaptInit ==
    Standalone("_adapt_for_teaching_style",
               {[parameters |-> d, teaching_style |-> s, user_info |-> u] :
                   d \in AdaptDicts, s \in TeachingStyles, u \in AdaptProfiles})

\* _adapt_for_teaching_style(parameters, teaching_style, user_info) returns
\* or raises; the caller's mapping shares its inner dictionaries with the
\* returned one
AdaptCall ==
    /\ fn = "_adapt_for_teaching_style"
    /\ ret = <<>>
    /\ LET r == AdaptForTeachingStyle(args.parameters, args.teaching_style, args.user_info)
       IN  ret' = <<[input |-> args.parameters, raised |-> r.raised,
                     value |-> IF r.raised THEN <<>> ELSE r.value]>>
    /\ args' = [args EXCEPT !.parameters =
                   AdaptInPlace(args.parameters, args.teaching_style, args.user_info)]
    /\ UNCHANGED fn
    /\ UNCHANGED workflow_vars
    /\ UNCHANGED session_vars

\* the caller passes the returned mapping to adapt again, with the same
\* style and profile
AdaptAgainCall ==
    /\ fn = "_adapt_for_teaching_style"
    /\ Len(ret) = 1
    /\ ~ret[1].raised
    /\ LET r == AdaptForTeachingStyle(ret[1].value, args.teaching_style, args.user_info)
       IN  ret' = Append(ret, [input |-> ret[1].value, raised |-> r.raised,
                               value |-> IF r.raised THEN <<>> ELSE r.value])
    /\ args' = [args EXCEPT !.parameters =
                   AdaptInPlace(args.parameters, args.teaching_style, args.user_info)]
    /\ UNCHANGED fn
    /\ UNCHANGED workflow_vars
    /\ UNCHANGED session_vars

AdaptNext ==
    \/ AdaptCall
    \/ AdaptAgainCall

AdaptSpec == AdaptInit /\ [][AdaptNext]_vars

\* C17 as claimed: adapt is idempotent, a second call with the same style
\* and profile on the adapted mapping returns the adapted mapping.
C17_AdaptIdempotent ==
    (fn = "_adapt_for_teaching_style" /\ Len(ret) = 2) =>
        /\ ~ret[2].raised
        /\ ret[2].value = ret[1].value

\* C17 as amended: a second call returns the adapted mapping, except that
\* when the summary contains "focused" and not "anxious" it raises a
\* flashcard count that is below 20 by a further 2, up to 20, and changes
\* nothing else.
C17_AdaptIdempotentUnlessFocused ==
    (fn = "_adapt_for_teaching_style" /\ Len(ret) = 2) =>
        LET summary == Lower(args.user_info.emotional_state_summary)
            focused == /\ Contains(summary, <<"f","o","c","u","s","e","d">>)
                       /\ ~Contains(summary, <<"a","n","x","i","o","u","s">>)
            once == ret[1].value
            twice == ret[2].value
        IN  /\ ~ret[2].raised
            /\ Len(twice) = Len(once)
            /\ \A i \in 1..Len(once) :
                  IF /\ focused
                     /\ once[i].tool = "flashcard_generator"
                     /\ once[i].params["count"].n < 20
                  THEN twice[i] = [once[i] EXCEPT !.params["count"] =
                                      N(IF once[i].params["count"].n + 2 < 20
                                        THEN once[i].params["count"].n + 2 ELSE 20)]
                  ELSE twice[i] = once[i]

\* a call that changed the mapping was repeated and changed nothing more
C17_Witness ==
    /\ fn = "_adapt_for_teaching_style"
    /\ Len(ret) = 2
    /\ ret[1].value # ret[1].input
    /\ ret[2].value = ret[1].value

\* C18: when the summary contains "anxious", in any case of letters, every
\* mapping adapt returns has difficulty "easy" and a count of at most 3 for
\* flashcard_generator and desired_depth "basic" for concept_explainer,
\* whatever the teaching style and the values passed in.
C18_AnxiousClamp ==
    (/\ fn = "_adapt_for_teaching_style"
     /\ Contains(Lower(args.user_info.emotional_state_summary), <<"a","n","x","i","o","u","s">>)) =>
        \A k \in 1..Len(ret) :
            ~ret[k].raised =>
                \A i \in 1..Len(ret[k].value) :
                    LET e == ret[k].value[i]
                    IN  /\ e.tool = "flashcard_generator" =>
                              /\ e.isdict
                              /\ e.params["difficulty"] = S("easy")
                              /\ e.params["count"].t = "int"
                              /\ e.params["count"].n <= 3
                        /\ e.tool = "concept_explainer" =>
                              /\ e.isdict
                              /\ e.params["desired_depth"] = S("basic")

\* under the socratic style an anxious profile brought a count of 19 down to 3
\* and kept the difficulty "easy"
C18_Witness ==
    /\ fn = "_adapt_for_teaching_style"
    /\ args.teaching_style = "socratic"
    /\ args.user_info.emotional_state_summary = EmoAnxious
    /\ ret # <<>>
    /\ ~ret[1].raised
    /\ \E i \in 1..Len(ret[1].value) :
          /\ ret[1].value[i].tool = "flashcard_generator"
          /\ ret[1].input[i].params = [topic |-> S("llm"), count |-> N(19),
                                       difficulty |-> S("easy"), subject |-> S("llm")]
          /\ ret[1].value[i].params["count"] = N(3)
          /\ ret[1].value[i].params["difficulty"] = S("easy")

\* C19 as claimed: whenever the summary contains "focused", whatever else it
\* contains, the flashcard count adapt returns is min(count + 2, 20) of the
\* count passed in (5 when there is none).
C19_FocusedAddsTwo ==
    (/\ fn = "_adapt_for_teaching_style"
     /\ ret # <<>>
     /\ ~ret[1].raised
     /\ Contains(Lower(args.user_info.emotional_state_summary), <<"f","o","c","u","s","e","d">>)) =>
        \A i \in 1..Len(ret[1].value) :
            ret[1].value[i].tool = "flashcard_generator" =>
                LET count == IF "count" \in DOMAIN ret[1].input[i].params
                             THEN ret[1].input[i].params["count"].n ELSE 5
                IN  ret[1].value[i].params["count"] =
                        N(IF count + 2 < 20 THEN count + 2 ELSE 20)

\* C19 as amended: the count is min(count + 2, 20) whenever the summary
\* contains "focused" and does not contain "anxious".
C19_FocusedAddsTwoUnlessAnxious ==
    (/\ fn = "_adapt_for_teaching_style"
     /\ ret # <<>>
     /\ ~ret[1].raised
     /\ Contains(Lower(args.user_info.emotional_state_summary), <<"f","o","c","u","s","e","d">>)
     /\ ~Contains(Lower(args.user_info.emotional_state_summary), <<"a","n","x","i","o","u","s">>)) =>
        \A i \in 1..Len(ret[1].value) :
            ret[1].value[i].tool = "flashcard_generator" =>
                LET count == IF "count" \in DOMAIN ret[1].input[i].params
                             THEN ret[1].input[i].params["count"].n ELSE 5
                IN  ret[1].value[i].params["count"] =
                        N(IF count + 2 < 20 THEN count + 2 ELSE 20)

\* a focused profile: a count of 19 came back as 20
C19_Witness ==
    /\ fn = "_adapt_for_teaching_style"
    /\ args.user_info.emotional_state_summary = EmoFocused
    /\ ret # <<>>
    /\ ~ret[1].raised
    /\ \E i \in 1..Len(ret[1].value) :
          /\ ret[1].value[i].tool = "flashcard_generator"
          /\ "count" \in DOMAIN ret[1].input[i].params
          /\ ret[1].input[i].params["count"] = N(19)
          /\ ret[1].value[i].params["count"] = N(20)

\* C20 as claimed: after a call the mapping the caller passed in, inner
\* dictionaries included, is what it was before the call.
C20_AdaptLeavesInputUnchanged ==
    (fn = "_adapt_for_teaching_style" /\ ret # <<>>) =>
        args.parameters = ret[1].input

(***************************************************************************)
(* Fallback parameter extraction followed by the adapter                   *)
(***************************************************************************)
\* messages with a word of each difficulty list, and with none
FallbackMessages ==
    {MsgQuantum, MsgSpanish, MsgNotesQuiz, MsgHello,
     <<"I"," ","a","m"," ","s","t","r","u","g","g","l","i","n","g"," ","w","i","t","h"," ","t","h","e","s","e"," ","f","l","a","s","h","c","a","r","d","s">>,
     <<"Q","u","i","z"," ","m","e",","," ","I"," ","w","a","n","t"," ","a"," ","c","h","a","l","l","e","n","g","e">>}

\* the profiles carry every emotional marker with a low, a middle and a high
\* mastery
FallbackAdaptInit ==
    Standalone("_fallback_parameter_extraction",
               {[tools_needed |-> l, message |-> m, user_info |-> u, teaching_style |-> s] :
                   l \in NoDupSeqs(LLMToolNames, MaxReplyTools), m \in FallbackMessages,
                   u \in {UserInfo(e, ml, LearnVisual) :
                            e \in {EmoFocused, EmoAnxious, EmoConfused, EmoAnxiousFocused},
                            ml \in {MasteryLevel5, MasteryLevel2, MasteryLevel8}},
                   s \in TeachingStyles})

\* _fallback_parameter_extraction(tools_needed, message, user_info) returns
FallbackParameterExtractionCall ==
    /\ fn = "_fallback_parameter_extraction"
    /\ ret = <<>>
    /\ ret' = <<[raised |-> FALSE,
                 value |-> FallbackParameterExtraction(args.tools_needed, args.message,
                                                       args.user_info)]>>
    /\ UNCHANGED <<fn, args>>
    /\ UNCHANGED workflow_vars
    /\ UNCHANGED session_vars

\* _extract_parameters_node passes the extracted mapping to
\* _adapt_for_teaching_style with the request's style and profile
AdaptFallbackCall ==
    /\ fn = "_fallback_parameter_extraction"
    /\ Len(ret) = 1
    /\ LET r == AdaptForTeachingStyle(ret[1].value, args.teaching_style, args.user_info)
       IN  ret' = Append(ret, [raised |-> r.raised,
                               value |-> IF r.raised THEN <<>> ELSE r.value])
    /\ UNCHANGED <<fn, args>>
    /\ UNCHANGED workflow_vars
    /\ UNCHANGED session_vars

FallbackAdaptNext ==
    \/ FallbackParameterExtractionCall
    \/ AdaptFallbackCall

FallbackAdaptSpec == FallbackAdaptInit /\ [][FallbackAdaptNext]_vars

\* C21: for every message and profile, the flashcard_generator parameters
\* that fallback parameter extraction produces have a count within [1, 20]
\* and a difficulty among easy, medium and hard, and the adapter, applied
\* with any teaching style and the profile's emotional summary, returns
\* without raising a mapping for which the same holds.
C21_FallbackFlashcardInRange ==
    fn = "_fallback_parameter_extraction" =>
        \A k \in 1..Len(ret) :
            /\ ~ret[k].raised
            /\ Keys(ret[k].value) = Keys(ret[1].value)
            /\ \A i \in 1..Len(ret[k].value) :
                 LET e == ret[k].value[i]
                 IN  e.tool = "flashcard_generator" =>
                         /\ e.isdict
                         /\ {"count", "difficulty"} \subseteq DOMAIN e.params
                         /\ e.params["count"].t = "int"
                         /\ e.params["count"].n >= MinCount
                         /\ e.params["count"].n <= MaxCount
                         /\ e.params["difficulty"] \in Difficulties

\* C21 happens: flashcards were requested, the fallback inferred "easy" from
\* the message, and the adapter has raised the count for a focused student
\* and the difficulty for the socratic style
C21_Witness ==
    /\ fn = "_fallback_parameter_extraction"
    /\ Len(ret) = 2
    /\ args.teaching_style = "socratic"
    /\ args.user_info.emotional_state_summary = EmoFocused
    /\ \E i \in 1..Len(ret[1].value) :
         /\ ret[1].value[i].tool = "flashcard_generator"
         /\ ret[1].value[i].params["count"] = N(7)
         /\ ret[1].value[i].params["difficulty"] = S("easy")
         /\ ret[2].value[i].params["count"] = N(9)
         /\ ret[2].value[i].params["difficulty"] = S("medium")

(***************************************************************************)
(* StateManager                                                            *)
(***************************************************************************)
\* the user ids of the callers
Users == {"student123"}

\* timedelta(hours=2)
SessionTimeout == 2

\* the turns add_conversation_message keeps
HistoryLimit == 20

\* the records track_tool_usage keeps
UsageLimit == 50

\* the clock stops here
MaxNow == 3

\* the most turns appended to one history
MaxTurns == 21

\* the most records made in one session
MaxUsage == 51

\* the most turns, and the most usage records, of a session whose user has
\* stored or read preferences
MaxPrefRun == 2

\* datetime.isoformat(): the text of a time
IsoFormat(t) == [iso |-> t]

\* datetime.fromisoformat(text)
FromIsoFormat(text) == text.iso

\* StateManager.clear_user_session: `if user_id in d: del d[user_id]` on
\* both dictionaries
ClearUserSession(sessions, histories, user_id) ==
    [user_sessions |-> [u \in (DOMAIN sessions) \ {user_id} |-> sessions[u]],
     conversation_history |-> [u \in (DOMAIN histories) \ {user_id} |-> histories[u]]]

\* an expiry test that also discards a session exactly one window old
SessionExpiredAtWindow(session, t) ==
    t - FromIsoFormat(session["last_activity"]) >= SessionTimeout

\* get_user_session: datetime.now() - last_activity > self.session_timeout
SessionExpired(session, t) ==
    t - FromIsoFormat(session["last_activity"]) > SessionTimeout

\* a session lookup that counts as activity
GetUserSessionTouch(sessions, histories, user_id, t) ==
    IF user_id \in DOMAIN sessions /\ SessionExpired(sessions[user_id], t)
    THEN LET c == ClearUserSession(sessions, histories, user_id)
         IN  [none |-> TRUE, session |-> EmptyDict, expired |-> TRUE,
              user_sessions |-> c.user_sessions,
              conversation_history |-> c.conversation_history]
    ELSE LET touched == IF user_id \in DOMAIN sessions
                        THEN Put(sessions, user_id,
                                 Put(sessions[user_id], "last_activity", IsoFormat(t)))
                        ELSE sessions
         IN  [none |-> user_id \notin DOMAIN sessions,
              session |-> IF user_id \in DOMAIN sessions THEN touched[user_id] ELSE EmptyDict,
              expired |-> FALSE,
              user_sessions |-> touched,
              conversation_history |-> histories]

\* StateManager.get_user_session at time t: whether it returns None, the
\* session it returns, whether it took the expiry branch, and the store it
\* leaves
GetUserSession(sessions, histories, user_id, t) ==
    IF user_id \in DOMAIN sessions /\ SessionExpired(sessions[user_id], t)
    THEN LET c == ClearUserSession(sessions, histories, user_id)
         IN  [none |-> TRUE, session |-> EmptyDict, expired |-> TRUE,
              user_sessions |-> c.user_sessions,
              conversation_history |-> c.conversation_history]
    ELSE [none |-> user_id \notin DOMAIN sessions,
          session |-> IF user_id \in DOMAIN sessions THEN sessions[user_id] ELSE EmptyDict,
          expired |-> FALSE,
          user_sessions |-> sessions,
          conversation_history |-> histories]

\* StateManager.update_user_session at time t: the sessions it leaves
UpdateUserSession(sessions, user_id, session_data, t) ==
    LET current_session == IF user_id \in DOMAIN sessions THEN sessions[user_id] ELSE EmptyDict
        updated == [k \in (DOMAIN current_session) \cup (DOMAIN session_data) |->
                        IF k \in DOMAIN session_data THEN session_data[k]
                        ELSE current_session[k]]
    IN  Put(sessions, user_id, Put(updated, "last_activity", IsoFormat(t)))

\* l[-n:] for n > 0
LastN(l, n) ==
    IF Len(l) > n THEN SubSeq(l, Len(l) - n + 1, Len(l)) ELSE l

\* a history that keeps its first turns and drops the new ones
AppendTurnKeepOldest(history, message) ==
    LET h == Append(history, message)
    IN  IF Len(h) > HistoryLimit THEN SubSeq(h, 1, HistoryLimit) ELSE h

\* add_conversation_message: the list after the append and the cut
AppendTurn(history, message) ==
    LastN(Append(history, message), HistoryLimit)

\* a usage log that is cut one record too late
AppendUsageLateCut(tool_usage, usage_record) ==
    LastN(Append(tool_usage, usage_record), UsageLimit + 1)

\* track_tool_usage: the list after the append and the cut
AppendUsage(tool_usage, usage_record) ==
    LastN(Append(tool_usage, usage_record), UsageLimit)

\* what the caller of track_tool_usage passes for the k-th record: a tool
\* response without extracted parameters, a note and a set of flashcards
UsageInput(k) ==
    LET kinds ==
          << [tool_name |-> "concept_explainer", success |-> FALSE, parameters |-> EmptyDict],
             [tool_name |-> "note_maker", success |-> TRUE,
              parameters |-> [topic |-> S(<<"S","p","a","n","i","s","h">>),
                              subject |-> S(<<"s","p","a","n","i","s","h">>),
                              note_taking_style |-> S("outline")]],
             [tool_name |-> "flashcard_generator", success |-> TRUE,
              parameters |-> [topic |-> S(<<"s","p","a","n","i","s","h">>),
                              count |-> N(7), difficulty |-> S("hard"),
                              subject |-> S(<<"s","p","a","n","i","s","h">>)]] >>
    IN  kinds[((k - 1) % 3) + 1]

\* StateManager._infer_preferred_difficulty
InferPreferredDifficulty(tool_usage) ==
    LET difficulty_counts ==
          [d \in {"easy", "medium", "hard"} |->
              Cardinality({i \in 1..Len(tool_usage) :
                  Get(tool_usage[i].parameters, "difficulty", S(NULL)) = S(d)})]
        most == CHOOSE c \in {difficulty_counts[d] : d \in DOMAIN difficulty_counts} :
                    \A d \in DOMAIN difficulty_counts : difficulty_counts[d] <= c
    IN  IF most = 0 THEN "medium"
        ELSE IF difficulty_counts["easy"] = most THEN "easy"
        ELSE IF difficulty_counts["medium"] = most THEN "medium"
        ELSE "hard"

\* StateManager._extract_topic_interests: lower-cased topic -> count (the
\* order of the items is not kept)
ExtractTopicInterests(tool_usage) ==
    LET TopicOf(usage) ==
            IF "topic" \in DOMAIN usage.parameters THEN usage.parameters["topic"].s
            ELSE IF "concept_to_explain" \in DOMAIN usage.parameters
            THEN usage.parameters["concept_to_explain"].s
            ELSE <<>>
        topics == {Lower(TopicOf(tool_usage[i])) : i \in 1..Len(tool_usage)} \ {<<>>}
    IN  [topic \in topics |->
            Cardinality({i \in 1..Len(tool_usage) : Lower(TopicOf(tool_usage[i])) = topic})]

\* patterns that are the defaults of each statistic when there is no usage
GetLearningPatternsDefaults(none, session) ==
    LET tool_usage == IF none \/ "tool_usage" \notin DOMAIN session
                      THEN <<>> ELSE session["tool_usage"]
    IN  [preferred_difficulty |-> InferPreferredDifficulty(tool_usage),
         topic_interests |-> ExtractTopicInterests(tool_usage)]

\* StateManager.get_learning_patterns, from what get_user_session returned:
\* {} without a session or without "tool_usage", the statistics otherwise
\* (of the five, the preferred difficulty and the topic interests)
GetLearningPatterns(none, session) ==
    IF none \/ "tool_usage" \notin DOMAIN session THEN EmptyDict
    ELSE [preferred_difficulty |-> InferPreferredDifficulty(session["tool_usage"]),
          topic_interests |-> ExtractTopicInterests(session["tool_usage"])]

\* what a call has returned: the method and the user it was called for,
\* whether it found the session expired, and the value (none: it is None)
Returned(op, user_id, expired, none, value) ==
    <<[op |-> op, user_id |-> user_id, expired |-> expired, none |-> none, value |-> value]>>

\* an hour passes
Tick ==
    /\ fn = "StateManager"
    /\ now < MaxNow
    /\ now' = now + 1
    /\ UNCHANGED <<user_sessions, conversation_history, appended, recorded, user_preferences>>
    /\ UNCHANGED <<fn, args, ret>>
    /\ UNCHANGED workflow_vars

\* get_user_session(user_id)
GetUserSessionCall ==
    /\ fn = "StateManager"
    /\ \E user_id \in Users :
         LET g == GetUserSession(user_sessions, conversation_history, user_id, now)
         IN  /\ user_sessions' = g.user_sessions
             /\ conversation_history' = g.conversation_history
             /\ appended' = IF g.expired THEN <<>> ELSE appended
             /\ recorded' = IF g.expired THEN <<>> ELSE recorded
             /\ ret' = Returned("get_user_session", user_id, g.expired, g.none, g.session)
    /\ UNCHANGED <<fn, args, now, user_preferences>>
    /\ UNCHANGED workflow_vars

\* clear_user_session(user_id)
ClearUserSessionCall ==
    /\ fn = "StateManager"
    /\ \E user_id \in Users :
         LET c == ClearUserSession(user_sessions, conversation_history, user_id)
         IN  /\ user_sessions' = c.user_sessions
             /\ conversation_history' = c.conversation_history
             /\ appended' = <<>>
             /\ recorded' = <<>>
             /\ ret' = Returned("clear_user_session", user_id, FALSE, TRUE, EmptyDict)
    /\ UNCHANGED <<fn, args, now, user_preferences>>
    /\ UNCHANGED workflow_vars

\* add_conversation_message(user_id, message): the append, the cut, and
\* update_user_session(user_id, {}); the session's age is not looked at.
\* The user's message and the assistant's answer alternate, the content of
\* the k-th turn is the k-th text.
AddConversationMessageCall ==
    /\ fn = "StateManager"
    /\ Len(appended) < MaxTurns
    /\ user_preferences = EmptyDict \/ Len(appended) < MaxPrefRun
    /\ \E user_id \in Users :
         LET k == Len(appended) + 1
             message == [role |-> IF k % 2 = 1 THEN "user" ELSE "assistant", content |-> k]
             history == IF user_id \in DOMAIN conversation_history
                        THEN conversation_history[user_id] ELSE <<>>
         IN  /\ conversation_history' =
                    Put(conversation_history, user_id, AppendTurn(history, message))
             /\ user_sessions' = UpdateUserSession(user_sessions, user_id, EmptyDict, now)
             /\ appended' = Append(appended, message)
             /\ ret' = Returned("add_conversation_message", user_id, FALSE, TRUE, EmptyDict)
    /\ UNCHANGED <<fn, args, now, recorded, user_preferences>>
    /\ UNCHANGED workflow_vars

\* track_tool_usage(user_id, tool_name, success, parameters).  The record's
\* timestamp keeps the order of the recordings, not the hour.
TrackToolUsageCall ==
    /\ fn = "StateManager"
    /\ Len(recorded) < MaxUsage
    /\ user_preferences = EmptyDict \/ Len(recorded) < MaxPrefRun
    /\ \E user_id \in Users :
         LET g == GetUserSession(user_sessions, conversation_history, user_id, now)
             session == g.session
             before == IF g.expired THEN <<>> ELSE recorded
             input == UsageInput(Len(before) + 1)
             usage_record == [tool_name |-> input.tool_name, success |-> input.success,
                              parameters |-> input.parameters,
                              timestamp |-> Len(before) + 1]
             tool_usage == IF "tool_usage" \in DOMAIN session
                           THEN session["tool_usage"] ELSE <<>>
             tracked == Put(session, "tool_usage", AppendUsage(tool_usage, usage_record))
         IN  /\ user_sessions' = UpdateUserSession(g.user_sessions, user_id, tracked, now)
             /\ conversation_history' = g.conversation_history
             /\ appended' = IF g.expired THEN <<>> ELSE appended
             /\ recorded' = Append(before, usage_record)
             /\ ret' = Returned("track_tool_usage", user_id, g.expired, TRUE, EmptyDict)
    /\ UNCHANGED <<fn, args, now, user_preferences>>
    /\ UNCHANGED workflow_vars

\* get_learning_patterns(user_id)
GetLearningPatternsCall ==
    /\ fn = "StateManager"
    /\ \E user_id \in Users :
         LET g == GetUserSession(user_sessions, conversation_history, user_id, now)
         IN  /\ user_sessions' = g.user_sessions
             /\ conversation_history' = g.conversation_history
             /\ appended' = IF g.expired THEN <<>> ELSE appended
             /\ recorded' = IF g.expired THEN <<>> ELSE recorded
             /\ ret' = Returned("get_learning_patterns", user_id, g.expired, FALSE,
                                GetLearningPatterns(g.none, g.session))
    /\ UNCHANGED <<fn, args, now, user_preferences>>
    /\ UNCHANGED workflow_vars

\* preferences read from the copy that update_user_preferences leaves in
\* the session
GetUserPreferencesFromSession(preferences, sessions, user_id) ==
    IF user_id \in DOMAIN sessions
    THEN Get(sessions[user_id], "preferences", EmptyDict)
    ELSE EmptyDict

\* StateManager.get_user_preferences: self.user_preferences.get(user_id, {})
GetUserPreferences(preferences, sessions, user_id) ==
    Get(preferences, user_id, EmptyDict)

\* update_user_preferences(user_id, preferences): the stored preferences
\* are updated with the given ones, and update_user_session stores them in
\* the session under "preferences"; the session's age is not looked at.
UpdateUserPreferencesCall ==
    /\ fn = "StateManager"
    /\ Len(appended) <= MaxPrefRun
    /\ Len(recorded) <= MaxPrefRun
    /\ \E user_id \in Users :
       \E preferences \in {[difficulty |-> S("easy")], [pace |-> S("slow")]} :
         LET stored == Get(user_preferences, user_id, EmptyDict)
             current_prefs == [k \in (DOMAIN stored) \cup (DOMAIN preferences) |->
                                  IF k \in DOMAIN preferences THEN preferences[k]
                                  ELSE stored[k]]
         IN  /\ user_preferences' = Put(user_preferences, user_id, current_prefs)
             /\ user_sessions' = UpdateUserSession(user_sessions, user_id,
                                      [preferences |-> current_prefs], now)
             /\ ret' = Returned("update_user_preferences", user_id, FALSE, TRUE, EmptyDict)
    /\ UNCHANGED <<fn, args, now, conversation_history, appended, recorded>>
    /\ UNCHANGED workflow_vars

\* get_user_preferences(user_id)
GetUserPreferencesCall ==
    /\ fn = "StateManager"
    /\ Len(appended) <= MaxPrefRun
    /\ Len(recorded) <= MaxPrefRun
    /\ \E user_id \in Users :
         ret' = Returned("get_user_preferences", user_id, FALSE, FALSE,
                         GetUserPreferences(user_preferences, user_sessions, user_id))
    /\ UNCHANGED <<fn, args, now, user_sessions, conversation_history, appended, recorded,
                   user_preferences>>
    /\ UNCHANGED workflow_vars

\* get_conversation_history(user_id, limit): history[-limit:] for a
\* positive limit, the whole history otherwise
GetConversationHistoryCall ==
    /\ fn = "StateManager"
    /\ Len(appended) <= MaxPrefRun
    /\ Len(recorded) <= MaxPrefRun
    /\ \E user_id \in Users : \E limit \in {0, 1, 10} :
         LET history == Get(conversation_history, user_id, <<>>)
         IN  ret' = Returned("get_conversation_history", user_id, FALSE, FALSE,
                             IF limit > 0 THEN LastN(history, limit) ELSE history)
    /\ UNCHANGED <<fn, args, now, user_sessions, conversation_history, appended, recorded,
                   user_preferences>>
    /\ UNCHANGED workflow_vars

SessionNext ==
    \/ Tick
    \/ GetUserSessionCall
    \/ ClearUserSessionCall
    \/ AddConversationMessageCall
    \/ TrackToolUsageCall
    \/ GetLearningPatternsCall
    \/ UpdateUserPreferencesCall
    \/ GetUserPreferencesCall
    \/ GetConversationHistoryCall

\* a StateManager serving calls over time
SessionSpec == Standalone("StateManager", {NULL}) /\ [][SessionNext]_vars

\* C22: when get_user_session is called for a user whose session exists,
\* and more than the inactivity window has passed since its last_activity,
\* the call returns None and removes the session record and the user's
\* conversation history; when the time passed does not exceed the window,
\* it returns the stored session and removes nothing.
C22_LazyExpiryOnGetSession ==
    [][ (now' = now /\ ret'[1].op = "get_user_session") =>
          LET u == ret'[1].user_id
          IN  u \in DOMAIN user_sessions =>
                IF now - FromIsoFormat(user_sessions[u]["last_activity"]) > SessionTimeout
                THEN /\ ret'[1].none
                     /\ u \notin DOMAIN user_sessions'
                     /\ u \notin DOMAIN conversation_history'
                ELSE /\ ~ret'[1].none
                     /\ ret'[1].value = user_sessions[u]
                     /\ user_sessions' = user_sessions
                     /\ conversation_history' = conversation_history ]_vars

\* C22 happens: get_user_session found a session older than the window,
\* returned None and left neither session nor history
C22_Witness ==
    /\ fn = "StateManager"
    /\ ret # <<>>
    /\ ret[1].op = "get_user_session"
    /\ ret[1].expired
    /\ ret[1].none
    /\ ret[1].user_id \notin DOMAIN user_sessions
    /\ ret[1].user_id \notin DOMAIN conversation_history
    /\ now > SessionTimeout

\* C23 as claimed: when more than the window has passed since the last
\* tracked action of a user with a session, then after the next operation
\* for that user, whichever it is, nothing stored before the gap is still
\* there: the history and the usage log hold at most what this operation
\* has stored.
C23_ExpiredSessionNeverRevived ==
    [][ (now' = now /\ ret'[1].op \in {"add_conversation_message", "track_tool_usage",
                                       "get_user_session", "get_learning_patterns"}) =>
          LET u == ret'[1].user_id
          IN  (/\ u \in DOMAIN user_sessions
               /\ now - FromIsoFormat(user_sessions[u]["last_activity"]) > SessionTimeout) =>
                /\ u \in DOMAIN conversation_history' =>
                      Len(conversation_history'[u]) <=
                          (IF ret'[1].op = "add_conversation_message" THEN 1 ELSE 0)
                /\ (u \in DOMAIN user_sessions' /\ "tool_usage" \in DOMAIN user_sessions'[u]) =>
                      Len(user_sessions'[u]["tool_usage"]) <=
                          (IF ret'[1].op = "track_tool_usage" THEN 1 ELSE 0) ]_vars

\* C24: the retained history of a user is exactly the last min(n, 20) of
\* the n turns appended since the history was last cleared, in the order
\* they were appended; after the 21st turn these are the turns 2 to 21.
C24_HistoryIsLastTwenty ==
    fn = "StateManager" =>
        \A u \in Users :
            LET n == Len(appended)
                m == IF n < HistoryLimit THEN n ELSE HistoryLimit
            IN  IF u \in DOMAIN conversation_history
                THEN /\ n > 0
                     /\ conversation_history[u] = SubSeq(appended, n - m + 1, n)
                ELSE n = 0

\* C24 happens: the 21st turn was appended and the first one is gone
C24_Witness ==
    /\ fn = "StateManager"
    /\ Len(appended) = HistoryLimit + 1
    /\ \E u \in DOMAIN conversation_history :
         /\ Len(conversation_history[u]) = HistoryLimit
         /\ conversation_history[u][1] = appended[2]
         /\ conversation_history[u][HistoryLimit] = appended[HistoryLimit + 1]
         /\ appended[1] # appended[2]

\* C25: the usage log of a user holds at most 50 records, and they are the
\* latest of the records made, in the order they were made.
C25_UsageLogIsLastFifty ==
    fn = "StateManager" =>
        \A u \in Users :
            LET n == Len(recorded)
                m == IF n < UsageLimit THEN n ELSE UsageLimit
            IN  IF u \in DOMAIN user_sessions /\ "tool_usage" \in DOMAIN user_sessions[u]
                THEN /\ n > 0
                     /\ Len(user_sessions[u]["tool_usage"]) <= UsageLimit
                     /\ user_sessions[u]["tool_usage"] = SubSeq(recorded, n - m + 1, n)
                ELSE n = 0

\* C25 happens: the 51st record was made and the first one is gone
C25_Witness ==
    /\ fn = "StateManager"
    /\ Len(recorded) = UsageLimit + 1
    /\ \E u \in DOMAIN user_sessions :
         /\ Len(user_sessions[u]["tool_usage"]) = UsageLimit
         /\ user_sessions[u]["tool_usage"][1] = recorded[2]
         /\ user_sessions[u]["tool_usage"][UsageLimit] = recorded[UsageLimit + 1]
         /\ recorded[1] # recorded[2]

\* C26 as claimed: get_learning_patterns for a user without recorded tool
\* usage returns the preferred difficulty "medium" and no topic.
C26_DefaultsWithoutUsage ==
    (fn = "StateManager" /\ ret # <<>> /\ ret[1].op = "get_learning_patterns"
       /\ recorded = <<>>) =>
        /\ {"preferred_difficulty", "topic_interests"} \subseteq DOMAIN ret[1].value
        /\ ret[1].value["preferred_difficulty"] = "medium"
        /\ DOMAIN ret[1].value["topic_interests"] = {}

\* C26: get_learning_patterns for a user without recorded tool usage (no
\* session, an expired one, or one that only holds messages) returns the
\* empty mapping, with no preferred difficulty and no topic list in it.  With
\* recorded usage it returns the statistics, and there the preferred
\* difficulty is "medium" when no record declares easy, medium or hard, and
\* the topics are empty when no record names a topic or a concept.
C26_EmptyWithoutUsage ==
    (fn = "StateManager" /\ ret # <<>> /\ ret[1].op = "get_learning_patterns") =>
        IF recorded = <<>>
        THEN DOMAIN ret[1].value = {}
        ELSE /\ {"preferred_difficulty", "topic_interests"} \subseteq DOMAIN ret[1].value
             /\ (\A u \in DOMAIN user_sessions :
                   \A i \in 1..Len(user_sessions[u]["tool_usage"]) :
                     "difficulty" \notin DOMAIN user_sessions[u]["tool_usage"][i].parameters)
                  => ret[1].value["preferred_difficulty"] = "medium"
             /\ (\A u \in DOMAIN user_sessions :
                   \A i \in 1..Len(user_sessions[u]["tool_usage"]) :
                     DOMAIN user_sessions[u]["tool_usage"][i].parameters
                        \cap {"topic", "concept_to_explain"} = {})
                  => DOMAIN ret[1].value["topic_interests"] = {}

\* C26 happens: the user has a session that holds messages only, it has not
\* expired, and get_learning_patterns returned the empty mapping
C26_Witness ==
    /\ fn = "StateManager"
    /\ ret # <<>>
    /\ ret[1].op = "get_learning_patterns"
    /\ ~ret[1].expired
    /\ ret[1].user_id \in DOMAIN user_sessions
    /\ appended # <<>>
    /\ recorded = <<>>
    /\ DOMAIN ret[1].value = {}

(***************************************************************************)
(* Properties of the returned result                                       *)
(***************************************************************************)
\* C27: when the intent step identifies no tool (tools_needed is empty or
\* None), or when execute_tools was called and no ToolResult it returned has
\* success = true, orchestrate returns success = false together with an
\* error_message that is a non-empty text.
C27_FatalRunsReportError ==
    LET tools_needed == intent_analysis.tools_needed
        no_tools == \/ tools_needed.t = "none"
                    \/ tools_needed.t = "list" /\ tools_needed.l = <<>>
        all_failed == /\ "execute_tools" \in Range(visited)
                      /\ tool_parameters # <<>>
                      /\ \A i \in 1..Len(tool_responses) : ~tool_responses[i].success
    IN  (pc = "returned" /\ (no_tools \/ all_failed)) =>
            /\ result.success = FALSE
            /\ result.error_message \notin {NULL, ""}

\* C27 happens: two tools were dispatched, every simulator call failed, and
\* the run returned through generate_response
C27_Witness ==
    /\ pc = "returned"
    /\ "generate_response" \in Range(visited)
    /\ Len(tool_responses) = 2
    /\ \A i \in 1..Len(tool_responses) : ~tool_responses[i].success
    /\ ~result.success
    /\ result.error_message = "All tool executions failed"

\* C28: generate_response and handle_error leave success as it is: in every
\* run the value of success after the terminal node equals the value before.
C28_TerminalStagesKeepSuccess ==
    [][ (pc \in {"generate_response", "handle_error"}) => (success' = success) ]_vars

\* C28 happens: handle_error has run, after a validation that failed, and
\* has assigned False to a success that was False
C28_Witness ==
    /\ pc = "END"
    /\ "handle_error" \in Range(visited)
    /\ error_message = "Parameter validation failed"
    /\ ~success

C30_SpanishFlashcardsIntent ==
    (fn = "_fallback_intent_analysis" /\ args.message = MsgSpanish /\ ret # <<>>) =>
        /\ ret[1].value.tools_needed = ListTN(<<"flashcard_generator">>)
        /\ ret[1].value.subject = "spanish"
        /\ \E i \in 1..Len(ret[1].value.topics) :
               Contains(ret[1].value.topics[i], <<"s","p","a","n","i","s","h">>)

\* C31: every call the dispatcher creates is for one of the three known
\* tools, its first await is the local simulator, and it ends with what a
\* simulator call returned or, after the simulator raised twice, with the
\* failure result: at no point of any run is a request to a configured
\* endpoint under way.
C31_SimulatorFirstNoBackend ==
    \A i \in 1..Len(tasks) :
        /\ tasks[i].tool \in KnownTools
        /\ tasks[i].pc \in {"created", "first_call", "second_call", "done"}
        /\ tasks[i].pc # "created" => (tasks[i].pc = "first_call" <=> tasks[i].calls = <<>>)
        /\ tasks[i].pc = "done" =>
              /\ tasks[i].calls \in {<<"ok">>, <<"fail", "ok">>, <<"fail", "fail">>}
              /\ tasks[i].resp.tool_name = tasks[i].tool

\* C31 happens: two tools were dispatched and each returned from its first
\* simulator call
C31_Witness ==
    /\ pc = "returned"
    /\ Len(tasks) = 2
    /\ \A i \in 1..2 : tasks[i].calls = <<"ok">> /\ result.tool_responses[i].success

\* C32: once the analyze or the extract stage has set error_message, the
\* message stays one of those stages' messages, no parameter set is stored
\* (for an empty tools_needed neither the extraction nor the adapter has
\* run), the run goes through handle_error and never through execute_tools,
\* no call is created, and the returned result has empty tool_responses and
\* success = FALSE.
C32_StageErrorRoutesToHandleError ==
    [][ LET StageError(e) == e \in {"Context analysis failed",
                                    "No tools identified from context analysis",
                                    "Parameter extraction failed"}
        IN  /\ StageError(error_message) => StageError(error_message')
            /\ StageError(error_message') =>
                  /\ tasks' = <<>>
                  /\ tool_responses' = <<>>
                  /\ ~success'
                  /\ extracted_parameters' = <<>>
                  /\ "execute_tools" \notin Range(visited')
                  /\ pc' \in {"extract_parameters", "validate_parameters",
                              "handle_error", "END", "returned"}
                  /\ pc' \in {"END", "returned"} => "handle_error" \in Range(visited')
                  /\ pc' = "returned" =>
                        /\ result'.tool_responses = <<>>
                        /\ ~result'.success
                        /\ result'.error_message = error_message' ]_vars

\* C32 happens: a run whose analysis named no tool has returned
C32_Witness ==
    /\ pc = "returned"
    /\ intent_analysis.tools_needed = ListTN(<<>>)
    /\ error_message = "No tools identified from context analysis"
    /\ visited = <<"analyze_context", "extract_parameters", "validate_parameters",
                   "handle_error">>
    /\ result.tool_responses = <<>>
    /\ ~result.success

\* C35: a returned result with success = TRUE carries no error message and
\* at least one tool result with success = TRUE.
C35_SuccessHasNoErrorAndAResult ==
    (pc = "returned" /\ result.success) =>
        /\ result.error_message = NULL
        /\ \E i \in 1..Len(result.tool_responses) : result.tool_responses[i].success

\* C35 happens: a successful result in which one of two tool results failed
C35_Witness ==
    /\ pc = "returned"
    /\ result.success
    /\ Len(result.tool_responses) = 2
    /\ result.tool_responses[1].success
    /\ ~result.tool_responses[2].success

\* C36: a returned result with success = FALSE carries an error message.
C36_FailureHasErrorMessage ==
    (pc = "returned" /\ ~result.success) => result.error_message # NULL

(***************************************************************************)
(* _infer_difficulty on its own                                            *)
(***************************************************************************)
\* every message of FallbackMessages with a mastery summary naming one of
\* the levels 1..10, "foundation", "advanced", or none of them; `expect` is
\* the difficulty that belongs to what the summary names
DifficultyInit ==
    LET Digit(k) == <<"0","1","2","3","4","5","6","7","8","9">>[k + 1]
        Level(k) == <<"L","e","v","e","l"," ">> \o (IF k = 10 THEN <<"1", "0">> ELSE <<Digit(k)>>)
                    \o <<":"," ","m","e","a","s","u","r","e","d"," ","b","y"," ","t","h","e"," ","l","a","s","t"," ","q","u","i","z">>
        Summaries ==
            {[text |-> Level(k),
              expect |-> IF k <= 3 THEN "easy" ELSE IF k >= 7 THEN "hard" ELSE "medium"] :
                 k \in 1..10}
            \cup {[text |-> <<"F","o","u","n","d","a","t","i","o","n"," ","s","k","i","l","l","s"," ","o","n","l","y">>, expect |-> "easy"],
                  [text |-> <<"A","d","v","a","n","c","e","d"," ","s","t","u","d","e","n","t">>, expect |-> "hard"],
                  [text |-> <<"N","o","t"," ","a","s","s","e","s","s","e","d"," ","y","e","t">>, expect |-> "medium"]}
    IN  Standalone("_infer_difficulty",
                   {[message |-> m, user_info |-> UserInfo(EmoFocused, su.text, LearnVisual),
                     expect |-> su.expect] :
                        m \in FallbackMessages, su \in Summaries})

\* _infer_difficulty(message, user_info) returns
InferDifficultyCall ==
    /\ fn = "_infer_difficulty"
    /\ ret = <<>>
    /\ ret' = <<InferDifficulty(args.message, args.user_info)>>
    /\ UNCHANGED <<fn, args>>
    /\ UNCHANGED workflow_vars
    /\ UNCHANGED session_vars

DifficultySpec == DifficultyInit /\ [][InferDifficultyCall]_vars

\* C33: for a message with no distress and no challenge word the inferred
\* difficulty is "hard" for a summary naming level 7, 8, 9 or 10 or
\* "advanced", "easy" for one naming level 1, 2 or 3 or "foundation", and
\* "medium" for any other summary.
C33_DifficultyFollowsMastery ==
    (/\ fn = "_infer_difficulty"
     /\ ret # <<>>
     /\ ~AnyIn(EasyWords, Lower(args.message))
     /\ ~AnyIn(HardWords, Lower(args.message)))
    => ret[1] = args.expect

\* C37: when adapt returns, every known tool's parameters that validate
\* accepted before the call are accepted after it, under every teaching
\* style and emotional summary; and adapt does return when validate accepts
\* all of the mapping.
C37_AdaptPreservesValidity ==
    (fn = "_adapt_for_teaching_style" /\ ret # <<>>) =>
        LET before == ret[1].input
            after == ret[1].value
            Accepted(e) == e.tool \in KnownTools /\ ValidateParameters(e.tool, e).valid
        IN  /\ (\A i \in 1..Len(before) : Accepted(before[i])) => ~ret[1].raised
            /\ ~ret[1].raised =>
                  /\ Len(after) = Len(before)
                  /\ \A i \in 1..Len(before) :
                        Accepted(before[i]) =>
                            after[i].tool = before[i].tool /\ Accepted(after[i])

\* C37 happens: a valid flashcard request for 19 cards of a focused student
\* comes back with 20 cards, and is still valid
C37_Witness ==
    /\ fn = "_adapt_for_teaching_style"
    /\ Len(ret) = 1
    /\ ~ret[1].raised
    /\ Contains(Lower(args.user_info.emotional_state_summary), <<"f","o","c","u","s","e","d">>)
    /\ Len(ret[1].input) = 1
    /\ ret[1].input[1].tool = "flashcard_generator"
    /\ ValidateParameters("flashcard_generator", ret[1].input[1]).valid
    /\ Get(ret[1].input[1].params, "count", NULL) = N(MaxCount - 1)
    /\ Get(ret[1].value[1].params, "count", NULL) = N(MaxCount)
    /\ ValidateParameters("flashcard_generator", ret[1].value[1]).valid

\* C38: clear_user_session, and a get_user_session or get_learning_patterns
\* that finds the session expired, remove the user's session record and
\* conversation history and leave the stored preferences as they were; no
\* call but update_user_preferences changes them, and get_user_preferences
\* returns the stored preferences, with or without a session.
C38_ClearKeepsPreferences ==
    [][ now' = now =>
          LET u == ret'[1].user_id
              op == ret'[1].op
          IN  /\ (\/ op = "clear_user_session"
                   \/ (op \in {"get_user_session", "get_learning_patterns"} /\ ret'[1].expired)) =>
                    /\ u \notin DOMAIN user_sessions'
                    /\ u \notin DOMAIN conversation_history'
              /\ op # "update_user_preferences" => user_preferences' = user_preferences
              /\ op = "get_user_preferences" =>
                    ret'[1].value = (IF u \in DOMAIN user_preferences
                                     THEN user_preferences[u] ELSE EmptyDict) ]_vars

\* C38 happens: preferences were stored, the session is gone, and
\* get_user_preferences has returned both stored preferences
C38_Witness ==
    /\ fn = "StateManager"
    /\ ret # <<>>
    /\ ret[1].op = "get_user_preferences"
    /\ ret[1].user_id \notin DOMAIN user_sessions
    /\ ret[1].user_id \notin DOMAIN conversation_history
    /\ ret[1].value = [difficulty |-> S("easy"), pace |-> S("slow")]

\* C39: get_user_session, get_learning_patterns, get_user_preferences and
\* get_conversation_history leave the last_activity of a session they do not
\* discard unchanged and create no session; add_conversation_message,
\* track_tool_usage and update_user_preferences set it to the time of the
\* call.
C39_ReadsDoNotRefresh ==
    [][ now' = now =>
          LET u == ret'[1].user_id
              op == ret'[1].op
          IN  /\ op \in {"get_user_session", "get_learning_patterns",
                         "get_user_preferences", "get_conversation_history"} =>
                    (u \in DOMAIN user_sessions' =>
                        /\ u \in DOMAIN user_sessions
                        /\ user_sessions'[u]["last_activity"] = user_sessions[u]["last_activity"])
              /\ op \in {"add_conversation_message", "track_tool_usage",
                         "update_user_preferences"} =>
                    /\ u \in DOMAIN user_sessions'
                    /\ FromIsoFormat(user_sessions'[u]["last_activity"]) = now ]_vars

\* C39 happens: a session two hours old was read by get_conversation_history
\* and is still two hours old
C39_Witness ==
    /\ fn = "StateManager"
    /\ ret # <<>>
    /\ ret[1].op = "get_conversation_history"
    /\ ret[1].user_id \in DOMAIN user_sessions
    /\ now - FromIsoFormat(user_sessions[ret[1].user_id]["last_activity"]) = SessionTimeout
    /\ Len(ret[1].value) = 1
    /\ Len(conversation_history[ret[1].user_id]) = 2

(***************************************************************************)
(* track_tool_usage: calls in flight together                              *)
(***************************************************************************)
\* an event loop that may run another task at every await
AwaitSuspendsAlways(callee) ==
    TRUE

\* whether awaiting `callee` hands control to the event loop.  The methods
\* of StateManager await nothing but each other (get_user_session awaits
\* clear_user_session, the writers await update_user_session): awaiting them
\* runs them to their end without a switch to another task; the external
\* calls do suspend.
AwaitSuspends(callee) ==
    callee \in {"llm.ainvoke", "client.post"}

\* one or two requests for the same user arrive and the event loop creates
\* a track_tool_usage task for each; none has started
TrackToolUsageTasks ==
    /\ fn = "track_tool_usage"
    /\ \A i \in 1..Len(args) : args[i].pc = "done"
    /\ \E k \in 1..2 :
         /\ Len(recorded) + k <= MaxUsage + 1
         /\ args' = [i \in 1..k |-> [user_id |-> "student123", pc |-> "created",
                                       held |-> "none", session |-> EmptyDict]]
    /\ ret' = <<>>
    /\ UNCHANGED <<fn, user_sessions, conversation_history, now, appended, recorded,
                   user_preferences>>
    /\ UNCHANGED workflow_vars

\* the event loop runs task i until it suspends or returns.  `held` tells
\* whether `session` is the stored dictionary itself (what get_user_session
\* returned) or the task's own {} (it returned None); the record carries the
\* number of its append.
TrackStep(i) ==
    /\ fn = "track_tool_usage"
    /\ i \in 1..Len(args)
    /\ args[i].pc # "done"
    /\ LET u == args[i].user_id
           Got(st) ==
               LET g == GetUserSession(st.user_sessions, st.conversation_history, u, now)
               IN  [st EXCEPT !.pc = "got",
                              !.held = IF g.none THEN "own" ELSE "stored",
                              !.session = EmptyDict,
                              !.user_sessions = g.user_sessions,
                              !.conversation_history = g.conversation_history]
           Appended(st) ==
               LET session == IF st.held = "stored" THEN st.user_sessions[u] ELSE st.session
                   input == UsageInput(Len(st.recorded) + 1)
                   usage_record == [tool_name |-> input.tool_name, success |-> input.success,
                                    parameters |-> input.parameters,
                                    timestamp |-> Len(st.recorded) + 1]
                   tracked == Put(session, "tool_usage",
                                  AppendUsage(Get(session, "tool_usage", <<>>), usage_record))
               IN  [st EXCEPT !.pc = "appended",
                              !.session = IF st.held = "stored" THEN EmptyDict ELSE tracked,
                              !.user_sessions = IF st.held = "stored"
                                                THEN Put(st.user_sessions, u, tracked)
                                                ELSE st.user_sessions,
                              !.recorded = Append(st.recorded, usage_record)]
           Updated(st) ==
               LET session == IF st.held = "stored" THEN st.user_sessions[u] ELSE st.session
               IN  [st EXCEPT !.pc = "done",
                              !.user_sessions = UpdateUserSession(st.user_sessions, u, session, now)]
           FromAppended(st) == Updated(st)
           FromGot(st) ==
               IF AwaitSuspends("update_user_session") THEN Appended(st)
               ELSE FromAppended(Appended(st))
           FromCreated(st) ==
               IF AwaitSuspends("get_user_session") THEN Got(st) ELSE FromGot(Got(st))
           st0 == [pc |-> args[i].pc, held |-> args[i].held, session |-> args[i].session,
                   user_sessions |-> user_sessions,
                   conversation_history |-> conversation_history,
                   recorded |-> recorded]
           st1 == IF st0.pc = "created" THEN FromCreated(st0)
                  ELSE IF st0.pc = "got" THEN FromGot(st0)
                  ELSE FromAppended(st0)
       IN  /\ args' = [args EXCEPT ![i] = [user_id |-> u, pc |-> st1.pc, held |-> st1.held,
                                            session |-> st1.session]]
           /\ user_sessions' = st1.user_sessions
           /\ conversation_history' = st1.conversation_history
           /\ recorded' = st1.recorded
           /\ ret' = IF st1.pc = "done" THEN Append(ret, i) ELSE ret
    /\ UNCHANGED <<fn, now, appended, user_preferences>>
    /\ UNCHANGED workflow_vars

\* track_tool_usage tasks of one user, created one or two at a time and run
\* by the event loop in any order
OverlapSpec ==
    Standalone("track_tool_usage", {<<>>})
    /\ [][TrackToolUsageTasks \/ \E i \in 1..2 : TrackStep(i)]_vars

\* C34: the usage log never holds more than 50 records, and when the
\* track_tool_usage calls in flight together have all returned it holds the
\* record of each of them: it is the latest 50 of all records made, so no
\* record is lost to the other call.
C34_OverlappingCallsKeepBothRecords ==
    fn = "track_tool_usage" =>
        LET u == "student123"
            log == IF u \in DOMAIN user_sessions
                   THEN Get(user_sessions[u], "tool_usage", <<>>) ELSE <<>>
        IN  /\ Len(log) <= UsageLimit
            /\ (\A i \in 1..Len(args) : args[i].pc = "done") =>
                  /\ log = LastN(recorded, UsageLimit)
                  /\ Len(recorded) < UsageLimit => Len(log) = Len(recorded)

\* C34 happens: two calls were in flight together for a user without a
\* session, the one created last ran first, and the log holds both records
C34_Witness ==
    /\ fn = "track_tool_usage"
    /\ Len(args) = 2
    /\ ret = <<2, 1>>
    /\ Len(recorded) = 2
    /\ user_sessions["student123"]["tool_usage"] = recorded

=============================================================================
